---- MODULE Spec2Model ----
(***************************************************************************)
(* gg: grep for Go source code.  A model of the scan worker (token-class   *)
(* and numeric-value matching of one file) and of the dispatcher/reporter  *)
(* pipeline (work queues, workers, result queues, reporter, Complete).     *)
(*                                                                         *)
(* Text is a sequence of one-character strings.  A regular expression is   *)
(* modelled by the literal patterns only: regex.Match(text) is substring   *)
(* search.  The external lexer (github.com/MichaelTJones/lex) is not part  *)
(* of the repository: a source file is built from a sequence of lexemes,   *)
(* its bytes are their concatenation and the token stream gives each token *)
(* the line of its first byte.                                             *)
(***************************************************************************)
EXTENDS Integers, Sequences, FiniteSets, TLC

\* ------------------------------------------------------------------ bounds
\* most paths named on the command line in the path-resolution specification
MaxPaths == 2
\* most bytes of a path handed to isVisible
MaxPathLen == 5
\* most extensions after the stem of a file name handed to isGo and isArchive
MaxExts == 3
\* largest number of CPUs, and largest absolute value of the -cpu flag
MaxCPU == 4
\* most members of a zip archive read with Next on its own
MaxMembers == 3
\* most calls of Next after the one that returned io.EOF first
MaxEOF == 2
\* most calls of Complete after the first
MaxAgain == 2
\* longest lexeme sequence of a generated source file
MaxTokens == 3
\* most work items submitted in one run of the pipeline
MaxItems == 3
\* largest worker count (-cpu); the smallest is 2 (getMaxCPU)
MaxWorkers == 2
\* capacity of each per-worker queue in ordered mode (512 in the code)
balanceQueue == 1
\* capacity of the shared queues in unordered mode (1024 in the code)
workQueue == 1
\* most work items submitted in the backpressure specification
MaxBacklog == 7

\* ------------------------------------------------------------------ text
NL == "\n"

RECURSIVE Count(_, _)
\* bytes.Count(text, []byte{c})
Count(text, c) ==
  IF text = <<>> THEN 0
  ELSE (IF Head(text) = c THEN 1 ELSE 0) + Count(Tail(text), c)

RECURSIVE IndexByte(_, _)
\* bytes.IndexByte, 1-based; 0 when c does not occur
IndexByte(text, c) ==
  IF text = <<>> THEN 0
  ELSE IF Head(text) = c THEN 1
  ELSE LET r == IndexByte(Tail(text), c) IN IF r = 0 THEN 0 ELSE r + 1

RECURSIVE Concat(_)
Concat(ss) == IF ss = <<>> THEN <<>> ELSE Head(ss) \o Concat(Tail(ss))

\* regexp.Regexp.Match for a literal pattern: the pattern occurs in the text
regexMatch(regex, text) ==
  \E i \in 1..(Len(text) - Len(regex) + 1) :
     SubSeq(text, i, i + Len(regex) - 1) = regex

\* variant: every pattern compiles
getRegexpErrNever(input) == FALSE

\* getRegexp: regexp.Compile fails on an unbalanced parenthesis
getRegexpErr(input) == Count(input, "(") # Count(input, ")")

\* ------------------------------------------------------------------ Liner
RECURSIVE LinerLines(_)
\* the successive values of Liner.text() while Liner.scan() is true
LinerLines(b) ==
  IF Len(b) = 0 THEN <<>>
  ELSE LET index == IndexByte(b, NL) IN
       IF index = 0 THEN <<b>>
       ELSE <<SubSeq(b, 1, index)>> \o LinerLines(SubSeq(b, index + 1, Len(b)))

\* Liner.trim
trim(t) ==
  IF Len(t) > 0 /\ t[Len(t)] = NL THEN SubSeq(t, 1, Len(t) - 1) ELSE t

\* ------------------------------------------------------------------ strconv
DecDigits == <<"0", "1", "2", "3", "4", "5", "6", "7", "8", "9">>
LowerLetters == <<"a", "b", "c", "d", "e", "f", "g", "h", "i", "j", "k", "l", "m",
                  "n", "o", "p", "q", "r", "s", "t", "u", "v", "w", "x", "y", "z">>
UpperLetters == <<"A", "B", "C", "D", "E", "F", "G", "H", "I", "J", "K", "L", "M",
                  "N", "O", "P", "Q", "R", "S", "T", "U", "V", "W", "X", "Y", "Z">>

IndexOf(seq, c) ==
  IF \E i \in 1..Len(seq) : seq[i] = c
  THEN CHOOSE i \in 1..Len(seq) : seq[i] = c
  ELSE 0

lower(c) == IF IndexOf(UpperLetters, c) > 0 THEN LowerLetters[IndexOf(UpperLetters, c)] ELSE c

IsDecDigit(c) == IndexOf(DecDigits, c) > 0

\* the digit value ParseUint gives a byte, -1 for a byte that is no digit
DigitVal(c) ==
  IF IsDecDigit(c) THEN IndexOf(DecDigits, c) - 1
  ELSE IF IndexOf(LowerLetters, lower(c)) > 0 THEN IndexOf(LowerLetters, lower(c)) + 9
  ELSE -1

HasBasePrefix(s) ==
  Len(s) >= 2 /\ s[1] = "0" /\ lower(s[2]) \in {"b", "o", "x"}

RECURSIVE underscoreScan(_, _, _)
\* the loop of strconv.underscoreOK: saw is "^", "0", "_" or "!"
underscoreScan(s, saw, hex) ==
  IF s = <<>> THEN saw # "_"
  ELSE LET c == Head(s) IN
       IF IsDecDigit(c) \/ (hex /\ lower(c) \in {"a", "b", "c", "d", "e", "f"})
       THEN underscoreScan(Tail(s), "0", hex)
       ELSE IF c = "_"
       THEN (saw = "0" /\ underscoreScan(Tail(s), "_", hex))
       ELSE IF saw = "_" THEN FALSE
       ELSE underscoreScan(Tail(s), "!", hex)

underscoreOK(s0) ==
  LET s == IF Len(s0) >= 1 /\ s0[1] \in {"-", "+"} THEN Tail(s0) ELSE s0 IN
  IF HasBasePrefix(s)
  THEN underscoreScan(SubSeq(s, 3, Len(s)), "0", lower(s[2]) = "x")
  ELSE underscoreScan(s, "^", FALSE)

RECURSIVE uintDigits(_, _, _)
\* the digit loop of ParseUint: -1 on a syntax error, else the value
uintDigits(s, base, n) ==
  IF s = <<>> THEN n
  ELSE LET c == Head(s) IN
       IF c = "_" THEN uintDigits(Tail(s), base, n)
       ELSE IF DigitVal(c) < 0 \/ DigitVal(c) >= base THEN -1
       ELSE uintDigits(Tail(s), base, n * base + DigitVal(c))

\* ParseUint that reads every text in base 10
ParseUintBase10(s) ==
  IF s = <<>> \/ uintDigits(s, 10, 0) < 0 THEN [err |-> TRUE, val |-> 0]
  ELSE [err |-> FALSE, val |-> uintDigits(s, 10, 0)]

\* strconv.ParseUint(s, 0, 64): [err, val].  The texts of the model stay far
\* below 2^64, so the range error does not arise.
ParseUint(s) ==
  IF s = <<>> THEN [err |-> TRUE, val |-> 0]
  ELSE LET pre == IF s[1] = "0"
                  THEN IF Len(s) >= 3 /\ lower(s[2]) = "b" THEN <<2, 3>>
                       ELSE IF Len(s) >= 3 /\ lower(s[2]) = "o" THEN <<8, 3>>
                       ELSE IF Len(s) >= 3 /\ lower(s[2]) = "x" THEN <<16, 3>>
                       ELSE <<8, 2>>
                  ELSE <<10, 1>>
           n == uintDigits(SubSeq(s, pre[2], Len(s)), pre[1], 0)
       IN IF n < 0 THEN [err |-> TRUE, val |-> 0]
          ELSE IF Count(s, "_") > 0 /\ ~underscoreOK(s) THEN [err |-> TRUE, val |-> 0]
          ELSE [err |-> FALSE, val |-> n]

RECURSIVE StripChar(_, _)
StripChar(s, c) ==
  IF s = <<>> THEN <<>>
  ELSE (IF Head(s) = c THEN <<>> ELSE <<Head(s)>>) \o StripChar(Tail(s), c)

RECURSIVE decDigits(_, _)
\* value of a run of decimal digits, -1 when a byte is no decimal digit
decDigits(s, n) ==
  IF s = <<>> THEN n
  ELSE IF ~IsDecDigit(Head(s)) THEN -1
  ELSE decDigits(Tail(s), n * 10 + DigitVal(Head(s)))

RECURSIVE DropTrailingZeros(_)
DropTrailingZeros(s) ==
  IF s # <<>> /\ s[Len(s)] = "0" THEN DropTrailingZeros(SubSeq(s, 1, Len(s) - 1)) ELSE s

\* strconv.ParseFloat(s, 64) on the decimal forms without exponent that the
\* model's alphabet can spell: digits [ "." digits ].  The value is kept
\* exactly, as mant / 10^scale with no trailing zero in the fraction.
ParseFloat(s0) ==
  LET bad == [err |-> TRUE, mant |-> 0, scale |-> 0]
      s == StripChar(s0, "_")
      dot == IndexByte(s, ".")
      ip == IF dot = 0 THEN s ELSE SubSeq(s, 1, dot - 1)
      fp == IF dot = 0 THEN <<>> ELSE DropTrailingZeros(SubSeq(s, dot + 1, Len(s)))
  IN IF s = <<>> \/ (Count(s0, "_") > 0 /\ ~underscoreOK(s0)) THEN bad
     ELSE IF Len(s) - (IF dot = 0 THEN 0 ELSE 1) = 0 THEN bad
     ELSE IF decDigits(ip \o fp, 0) < 0 THEN bad
     ELSE [err |-> FALSE, mant |-> decDigits(ip \o fp, 0), scale |-> Len(fp)]

\* ------------------------------------------------------------------ selector
\* searchMode{}: every class off, no value query.  sign is the package-level
\* variable that setupModeGG sets; it is carried with the mode.
searchModeZero ==
  [C |-> FALSE, D |-> FALSE, G |-> FALSE, I |-> FALSE, K |-> FALSE, N |-> FALSE,
   O |-> FALSE, P |-> FALSE, R |-> FALSE, S |-> FALSE, T |-> FALSE, V |-> FALSE,
   vIsInt |-> FALSE, vInt |-> 0, vFloat |-> [mant |-> 0, scale |-> 0], sign |-> 0]

\* one iteration of parseFirstArg's loop over the selector
applyClass(result, class) ==
  CASE class = "a" -> result
    [] class = "c" -> [result EXCEPT !.C = TRUE]
    [] class = "C" -> [result EXCEPT !.C = FALSE]
    [] class = "d" -> [result EXCEPT !.D = TRUE]
    [] class = "D" -> [result EXCEPT !.D = FALSE]
    [] class = "g" -> [result EXCEPT !.G = TRUE]
    [] class = "i" -> [result EXCEPT !.I = TRUE]
    [] class = "I" -> [result EXCEPT !.I = FALSE]
    [] class = "k" -> [result EXCEPT !.K = TRUE]
    [] class = "K" -> [result EXCEPT !.K = FALSE]
    [] class = "n" -> [result EXCEPT !.N = TRUE]
    [] class = "N" -> [result EXCEPT !.N = FALSE]
    [] class = "o" -> [result EXCEPT !.O = TRUE]
    [] class = "O" -> [result EXCEPT !.O = FALSE]
    [] class = "p" -> [result EXCEPT !.P = TRUE]
    [] class = "P" -> [result EXCEPT !.P = FALSE]
    [] class = "r" -> [result EXCEPT !.R = TRUE]
    [] class = "R" -> [result EXCEPT !.R = FALSE]
    [] class = "s" -> [result EXCEPT !.S = TRUE]
    [] class = "S" -> [result EXCEPT !.S = FALSE]
    [] class = "t" -> [result EXCEPT !.T = TRUE]
    [] class = "T" -> [result EXCEPT !.T = FALSE]
    [] class = "v" -> [result EXCEPT !.V = TRUE]
    [] class = "V" -> [result EXCEPT !.V = FALSE]
    [] OTHER -> result

RECURSIVE applyClasses(_, _)
applyClasses(input, result) ==
  IF input = <<>> THEN result
  ELSE applyClasses(Tail(input), applyClass(result, Head(input)))

\* variant: the letter a enables nothing
parseFirstArgNoAll(input) == applyClasses(input, searchModeZero)

parseFirstArg(input) ==
  LET all == IF Count(input, "a") > 0
             THEN [searchModeZero EXCEPT !.C = TRUE, !.D = TRUE, !.I = TRUE, !.K = TRUE,
                                         !.N = TRUE, !.O = TRUE, !.P = TRUE, !.R = TRUE,
                                         !.S = TRUE, !.T = TRUE, !.V = TRUE]
             ELSE searchModeZero
  IN applyClasses(input, all)

\* variant: a value query that fails to parse resets the whole mode
setupModeGGReset(args, flagActLikeGrep) ==
  IF flagActLikeGrep \/ parseFirstArg(args[1]).V THEN searchModeZero
  ELSE parseFirstArg(args[1])

\* setupModeGG(args) with the -g flag as given; args = <<selector, query>>
setupModeGG(args, flagActLikeGrep) ==
  IF flagActLikeGrep THEN searchModeZero
  ELSE LET a0 == IF Len(args) >= 1 THEN args[1] ELSE <<>>
           a1 == IF Len(args) >= 2 THEN args[2] ELSE <<>>
           res == parseFirstArg(a0)
       IN IF res.V /\ Len(a1) > 0
          THEN LET neg == a1[1] = "-"
                   n == IF neg THEN Tail(a1) ELSE a1
                   u == ParseUint(n)
                   f == ParseFloat(n)
                   sg == IF neg THEN -1 ELSE 0
               IN IF ~u.err
                  THEN [res EXCEPT !.vIsInt = TRUE, !.vInt = u.val, !.sign = sg]
                  ELSE IF ~f.err
                  THEN [res EXCEPT !.vFloat = [mant |-> f.mant, scale |-> f.scale],
                                   !.sign = sg]
                  ELSE [res EXCEPT !.V = FALSE, !.sign = sg]
          ELSE res

\* ------------------------------------------------------------------ lexer
\* The token stream of lex.NewLexer(source, lex.ScanGo) for a source that is
\* the concatenation of the lexemes: each token carries the line of its first
\* byte (lexer.Line), the first line being 1.
RECURSIVE Lex(_, _)
Lex(lexemes, line) ==
  IF lexemes = <<>> THEN <<>>
  ELSE <<[tok |-> Head(lexemes).tok, sub |-> Head(lexemes).sub,
          text |-> Head(lexemes).text, line |-> line]>>
       \o Lex(Tail(lexemes), line + Count(Head(lexemes).text, NL))

\* lexer.GetLine(): the source line of the current token, without its newline
GetLine(source, line) == trim(LinerLines(source)[line])

\* ------------------------------------------------------------------ files
\* filepath.Ext on a name kept as <<stem, ext1, ext2, ...>>
Ext(name) == IF Len(name) > 1 THEN name[Len(name)] ELSE ""

\* strings.TrimSuffix(name, filepath.Ext(name))
TrimExt(name) == IF Len(name) > 1 THEN SubSeq(name, 1, Len(name) - 1) ELSE name

isCompressed(name) == Ext(name) \in {".bz2", ".gz", ".zst"}

ControlBytes == {"^@", "^A"}
byteLimit == 2048
nonPrintLimit == 9

RECURSIVE nonPrintCount(_, _, _)
\* the loop of isBinary from index i (0-based) with nonPrint counted so far
nonPrintCount(source, i, nonPrint) ==
  IF source = <<>> \/ i > byteLimit THEN FALSE
  ELSE LET np == IF Head(source) \in ControlBytes THEN nonPrint + 1 ELSE nonPrint
       IN IF np > nonPrintLimit THEN TRUE
          ELSE nonPrintCount(Tail(source), i + 1, np)

isBinary(source) == nonPrintCount(source, 0, 0)

\* A file of the environment: name, the lexemes its (decoded) content consists
\* of, whether it can be opened and read, whether its compressed stream is
\* corrupt.
Source(f) == Concat([i \in 1..Len(f.lexemes) |-> f.lexemes[i].text])

\* variant: the decoder never reports an error
decompressUnchecked(w) ==
  [newName |-> IF isCompressed(w.name) THEN TrimExt(w.name) ELSE w.name,
   source |-> IF Len(w.source) > 0 THEN w.source ELSE Source(w.file), err |-> FALSE]

\* decompress(oldName, oldData) for a work item w = [name, source, file]
decompress(w) ==
  LET ext == Ext(w.name) IN
  IF (ext = ".go" /\ Len(w.source) > 0) \/ ext = ".zip"
  THEN [newName |-> w.name, source |-> w.source, err |-> FALSE]
  ELSE IF Len(w.source) = 0 /\ w.file.unreadable
  THEN [newName |-> w.name, source |-> <<>>, err |-> TRUE]
  ELSE IF isCompressed(w.name) /\ w.file.corrupt
  THEN [newName |-> w.name, source |-> <<>>, err |-> TRUE]
  ELSE [newName |-> IF isCompressed(w.name) THEN TrimExt(w.name) ELSE w.name,
        source |-> Source(w.file), err |-> FALSE]

\* ------------------------------------------------------------------ scan
\* NewScan(): the zero Scan.  printLine and expectPackageName are the locals
\* of Scan.scan, kept with the accumulator while the token loop runs.
NewScan ==
  [path |-> <<>>, bytes |-> 0, tokens |-> 0, matches |-> 0, lines |-> 0, files |-> 0,
   complete |-> FALSE, report |-> <<>>, printLine |-> 0, expectPackageName |-> FALSE]

\* formatMatch: one record "path:line:match\n" appended to the buffer
formatMatch(b, path, match, line) ==
  Append(b, [path |-> path, line |-> line, text |-> match])

RECURSIVE grepLinesFromZero(_, _, _, _)
\* variant: the line number is taken before it is incremented
grepLinesFromZero(s, ls, fileLine, regex) ==
  IF ls = <<>> THEN s
  ELSE LET n == fileLine + 1
           s1 == IF regexMatch(regex, Head(ls))
                 THEN [s EXCEPT !.matches = @ + 1,
                                !.report = formatMatch(@, s.path, trim(Head(ls)), fileLine)]
                 ELSE s
       IN grepLinesFromZero(s1, Tail(ls), n, regex)

RECURSIVE grepLines(_, _, _, _)
\* the grep-mode loop of Scan.scan over the lines the Liner yields
grepLines(s, ls, fileLine, regex) ==
  IF ls = <<>> THEN s
  ELSE LET n == fileLine + 1
           s1 == IF regexMatch(regex, Head(ls))
                 THEN [s EXCEPT !.matches = @ + 1,
                                !.report = formatMatch(@, s.path, trim(Head(ls)), n)]
                 ELSE s
       IN grepLines(s1, Tail(ls), n, regex)

\* variant: the latch is not cleared by the identifier
packageNameKeepsLatch(s, t, cfg) ==
  IF s.expectPackageName /\ t.tok = "Identifier"
  THEN LET m == cfg.mode.P /\ regexMatch(cfg.regex, t.text)
           pr == m /\ s.printLine < t.line
       IN [s EXCEPT !.matches = IF m THEN @ + 1 ELSE @,
                    !.report = IF pr THEN formatMatch(@, s.path, t.text, t.line) ELSE @,
                    !.printLine = IF pr THEN t.line ELSE @]
  ELSE IF t.tok = "Keyword" /\ t.text = <<"p", "a", "c", "k", "a", "g", "e">>
  THEN [s EXCEPT !.expectPackageName = TRUE]
  ELSE s

\* the package-name match without the test of printLine
packageNameNoGuard(s, t, cfg) ==
  IF s.expectPackageName /\ t.tok = "Identifier"
  THEN LET m == cfg.mode.P /\ regexMatch(cfg.regex, t.text) IN
       [s EXCEPT !.matches = IF m THEN @ + 1 ELSE @,
                 !.report = IF m THEN formatMatch(@, s.path, t.text, t.line) ELSE @,
                 !.printLine = IF m THEN t.line ELSE @,
                 !.expectPackageName = FALSE]
  ELSE IF t.tok = "Keyword" /\ t.text = <<"p", "a", "c", "k", "a", "g", "e">>
  THEN [s EXCEPT !.expectPackageName = TRUE]
  ELSE s

\* "go mini-parser": the package-name latch and the class-P match
packageName(s, t, cfg) ==
  IF s.expectPackageName /\ t.tok = "Identifier"
  THEN LET m == cfg.mode.P /\ regexMatch(cfg.regex, t.text)
           pr == m /\ s.printLine < t.line
       IN [s EXCEPT !.matches = IF m THEN @ + 1 ELSE @,
                    !.report = IF pr THEN formatMatch(@, s.path, t.text, t.line) ELSE @,
                    !.printLine = IF pr THEN t.line ELSE @,
                    !.expectPackageName = FALSE]
  ELSE IF t.tok = "Keyword" /\ t.text = <<"p", "a", "c", "k", "a", "g", "e">>
  THEN [s EXCEPT !.expectPackageName = TRUE]
  ELSE s

RECURSIVE subLinesAtTokenLine(_, _, _, _, _)
\* variant: every sub-line is given the line of the token
subLinesAtTokenLine(s, ls, tokLine, lineInString, regex) ==
  IF ls = <<>> THEN s
  ELSE LET m == regexMatch(regex, Head(ls))
           line == tokLine
           pr == m /\ s.printLine < line
           s1 == [s EXCEPT !.matches = IF m THEN @ + 1 ELSE @,
                           !.report = IF pr THEN formatMatch(@, s.path, trim(Head(ls)), line)
                                      ELSE @,
                           !.printLine = IF pr THEN line ELSE @]
       IN subLinesAtTokenLine(s1, Tail(ls), tokLine, lineInString + 1, regex)

RECURSIVE subLines(_, _, _, _, _)
\* handle: the loop over the lines of a multi-line raw string or block comment
subLines(s, ls, tokLine, lineInString, regex) ==
  IF ls = <<>> THEN s
  ELSE LET m == regexMatch(regex, Head(ls))
           line == tokLine + lineInString
           pr == m /\ s.printLine < line
           s1 == [s EXCEPT !.matches = IF m THEN @ + 1 ELSE @,
                           !.report = IF pr THEN formatMatch(@, s.path, trim(Head(ls)), line)
                                      ELSE @,
                           !.printLine = IF pr THEN line ELSE @]
       IN subLines(s1, Tail(ls), tokLine, lineInString + 1, regex)

\* the closure handle(flag) of Scan.scan for the current token t
handle(s, t, flag, cfg, source) ==
  IF ~flag THEN s
  ELSE IF t.tok = "String" /\ t.sub = "Raw" /\ Count(t.text, NL) > 0
  THEN subLines(s, LinerLines(t.text), t.line, 0, cfg.regex)
  ELSE IF t.tok = "Comment" /\ t.sub = "Block" /\ Count(t.text, NL) > 0
  THEN subLines(s, LinerLines(t.text), t.line, 0, cfg.regex)
  ELSE IF s.printLine < t.line /\ regexMatch(cfg.regex, t.text)
  THEN [s EXCEPT !.matches = @ + 1,
                 !.report = formatMatch(@, s.path, GetLine(source, t.line), t.line),
                 !.printLine = t.line]
  ELSE s

\* variant: the signs of the token and of the query are not compared
valueMatchAnySign(s, t, cfg, source) ==
  IF cfg.mode.V /\ s.printLine < t.line
  THEN LET neg == t.text[1] = "-"
           n == IF neg THEN Tail(t.text) ELSE t.text
           hit == IF cfg.mode.vIsInt
                  THEN ~ParseUint(n).err /\ ParseUint(n).val = cfg.mode.vInt
                  ELSE ~ParseFloat(n).err
                       /\ [mant |-> ParseFloat(n).mant, scale |-> ParseFloat(n).scale]
                          = cfg.mode.vFloat
       IN IF hit
          THEN [s EXCEPT !.report = formatMatch(@, s.path, GetLine(source, t.line), t.line),
                         !.printLine = t.line]
          ELSE s
  ELSE s

\* "introducing... the value match": case lex.Number after handle(N)
valueMatch(s, t, cfg, source) ==
  IF cfg.mode.V /\ s.printLine < t.line
  THEN LET neg == t.text[1] = "-"
           n == IF neg THEN Tail(t.text) ELSE t.text
           nS == IF neg THEN -1 ELSE 0
           hit == IF cfg.mode.vIsInt
                  THEN ~ParseUint(n).err /\ nS = cfg.mode.sign
                       /\ ParseUint(n).val = cfg.mode.vInt
                  ELSE ~ParseFloat(n).err /\ nS = cfg.mode.sign
                       /\ [mant |-> ParseFloat(n).mant, scale |-> ParseFloat(n).scale]
                          = cfg.mode.vFloat
       IN IF hit
          THEN [s EXCEPT !.report = formatMatch(@, s.path, GetLine(source, t.line), t.line),
                         !.printLine = t.line]
          ELSE s
  ELSE s

\* switch tok { ... } of Scan.scan
tokenSwitch(s, t, cfg, source) ==
  CASE t.tok = "Comment" -> handle(s, t, cfg.mode.C, cfg, source)
    [] t.tok = "Operator" -> handle(s, t, cfg.mode.O, cfg, source)
    [] t.tok = "String" -> handle(s, t, cfg.mode.S, cfg, source)
    [] t.tok = "Rune" -> handle(s, t, cfg.mode.R, cfg, source)
    [] t.tok = "Identifier" -> handle(s, t, cfg.mode.I, cfg, source)
    [] t.tok = "Number" ->
         valueMatch(handle(s, t, cfg.mode.N, cfg, source), t, cfg, source)
    [] t.tok = "Keyword" -> handle(s, t, cfg.mode.K, cfg, source)
    [] t.tok = "Type" -> handle(s, t, cfg.mode.T, cfg, source)
    [] t.tok = "Other" -> handle(s, t, cfg.mode.D, cfg, source)
    [] OTHER -> s

\* one iteration of the token loop of Scan.scan
scanToken(s, t, cfg, source) ==
  tokenSwitch(packageName([s EXCEPT !.tokens = @ + 1], t, cfg), t, cfg, source)

RECURSIVE scanTokens(_, _, _, _)
scanTokens(s, toks, cfg, source) ==
  IF toks = <<>> THEN s
  ELSE scanTokens(scanToken(s, Head(toks), cfg, source), Tail(toks), cfg, source)

\* Scan.scan before its loops: path, bytes, lines and files are set
scanStart(d) ==
  [NewScan EXCEPT !.path = d.newName, !.bytes = Len(d.source),
                  !.lines = Count(d.source, NL), !.files = 1]

\* whether Scan.scan returns before it sets anything
scanSkips(d, cfg) == d.err \/ (~cfg.flagGo /\ isBinary(d.source))

\* Scan.scan(name, source) for the work item w under the run's configuration
scan(w, cfg) ==
  LET d == decompress(w) IN
  IF scanSkips(d, cfg) THEN NewScan
  ELSE IF cfg.flagActLikeGrep \/ cfg.mode.G
  THEN grepLines(scanStart(d), LinerLines(d.source), 0, cfg.regex)
  ELSE scanTokens(scanStart(d), Lex(w.file.lexemes, 1), cfg, d.source)

\* doScan: the run's configuration from the positional arguments <<selector,
\* pattern>> (or <<pattern>> with -g) and the flags
Config(args, flagActLikeGrep, flagGo) ==
  [mode |-> setupModeGG(args, flagActLikeGrep),
   regex |-> args[IF flagActLikeGrep THEN 1 ELSE 2],
   flagActLikeGrep |-> flagActLikeGrep, flagGo |-> flagGo]

\* ------------------------------------------------------------------ inputs
Lexeme(tok, sub, text) == [tok |-> tok, sub |-> sub, text |-> text]

kwPackage == Lexeme("Keyword", "", <<"p", "a", "c", "k", "a", "g", "e">>)
idX == Lexeme("Identifier", "ASCII", <<"x">>)
spBlank == Lexeme("Space", "", <<" ">>)
spNewline == Lexeme("Space", "", <<NL>>)
cmBlock == Lexeme("Comment", "Block", <<"/", "*", "x", NL, "x", "*", "/">>)
\* BQ stands for the back quote that delimits a raw string
BQ == "BQ"
strRaw == Lexeme("String", "Raw", <<BQ, NL, "x", BQ>>)
num255 == Lexeme("Number", "Decimal", <<"2", "5", "5">>)
numHex == Lexeme("Number", "Hexadecimal", <<"0", "x", "f", "f">>)
opPlus == Lexeme("Operator", "", <<"+">>)

LexemePool ==
  {kwPackage, idX, spBlank, spNewline, cmBlock, strRaw, num255, numHex, opPlus}

IsWord(l) == l.tok \in {"Keyword", "Identifier", "Number", "Type", "Other"}

\* the concatenation of the lexemes lexes back to the same lexemes: no two
\* words, blanks or operators touch
WellLexed(ls) ==
  \A i \in 1..(Len(ls) - 1) :
     /\ ~(IsWord(ls[i]) /\ IsWord(ls[i + 1]))
     /\ ~(ls[i].tok = "Space" /\ ls[i + 1].tok = "Space")
     /\ ~(ls[i].tok = "Operator" /\ ls[i + 1].tok = "Operator")

SeqsUpTo(S, n) == UNION {[1..k -> S] : k \in 1..n}

GoName == <<"a", ".go">>

PlainFile(name, lexemes) ==
  [name |-> name, lexemes |-> lexemes, unreadable |-> FALSE, corrupt |-> FALSE]

GenFiles == {PlainFile(GoName, ls) : ls \in {l \in SeqsUpTo(LexemePool, MaxTokens) : WellLexed(l)}}

\* a plain file named on the command line: Scan(name, nil)
PlainWork(f) == [name |-> f.name, source |-> <<>>, file |-> f]

Patterns == {<<"x">>, <<"2", "5", "5">>}

Selectors ==
  {<<"a">>, <<"a", "C">>, <<"a", "D">>, <<"a", "I">>, <<"a", "K">>, <<"a", "N">>,
   <<"a", "O">>, <<"a", "P">>, <<"a", "R">>, <<"a", "S">>, <<"a", "T">>, <<"a", "V">>,
   <<"v">>, <<"n", "v">>, <<"v", "g">>, <<"g">>, <<"p">>, <<"c">>}

\* ------------------------------------------------------------------ state
VARIABLES
  args,          \* flag.Args(): <<selector, pattern>>
  flagGo,        \* -go
  flagUnordered, \* -unordered
  flagCPUs,      \* -cpu after getMaxCPU
  outputOK,      \* whether the reporter can open the output sink
  nPaths,        \* how many files the command line names
  mpc,           \* position of the main goroutine (doMain, doScan, Scan, Complete)
  pending,       \* the Work that Scan.Scan is about to enqueue
  first,         \* var first
  workers,       \* var workers
  scattered,     \* var scattered
  work,          \* var work: the work channels' buffers, indexed from 0
  workClosed,    \* whether the work channels are closed
  result,        \* var result: the result channels' buffers, indexed from 0
  resultClosed,  \* whether the result channels are closed
  wk,            \* per worker goroutine: position and the Scan it holds
  rep,           \* reporter goroutine: position, gathered, completed, total
  output,        \* what the reporter has written, one entry per w.Write
  sc,            \* the Scan of doScan: total and complete
  status,        \* programStatus of doMain, -1 while running
  submitted,     \* history: the files handed to Scan.Scan, in order
  scans,         \* Scan.scan tabulated: the Scan each work item of the run yields
  hPhase,        \* harness: "idle", "start", "base" or "ran"
  hFile,         \* harness: the file scanned
  hSel,          \* harness: the selector of the second run
  hBase,         \* harness: the Scan of the run with selector a
  hOut,          \* harness: the Scan of the run with selector hSel
  hPos,          \* harness: how many tokens the token loop has taken
  hPrev,         \* harness: the Scan before the token taken last
  optH,          \* -h as given on the command line
  flagFileName,  \* -h as the program has set it since
  flagLineNumber,\* -n
  flagRecursive, \* -r
  paths,         \* where the paths come from: -list file, command line, standard input
  rPhase,        \* path resolution: "idle", "start", "paths", "done" or "panic"
  rQueue,        \* the paths still to be handed to Scan.File
  items,         \* the Work items Scan.Scan has been called with, in order
  rOut,          \* the records written for the items, in order
  hMode,         \* the searchMode computed last from a selector
  flagVisible,   \* -visible
  callIn,        \* the argument of the function applied last (or the object it works on)
  callOut        \* what that function returned

rvars == <<optH, flagFileName, flagLineNumber, flagRecursive, paths, rPhase, rQueue, items,
           rOut>>
cvars == <<flagVisible, callIn, callOut>>
xvars == <<rvars, hMode, cvars>>
pcore == <<args, flagGo, flagUnordered, flagCPUs, outputOK, nPaths, mpc, pending, first, workers,
           scattered, work, workClosed, result, resultClosed, wk, rep, output, sc, status,
           submitted, scans>>
hcore == <<hPhase, hFile, hSel, hBase, hOut, hPos, hPrev>>
pvars == <<pcore, xvars>>
hvars == <<hcore, xvars>>
vars == <<pvars, hvars>>

\* Summary{}
SummaryZero == [bytes |-> 0, tokens |-> 0, matches |-> 0, lines |-> 0, files |-> 0]

\* the configuration of the run: with -g the pattern is the only fixed
\* argument (fixedArgs = 1), without it the selector comes first
RunCfg == Config(args, Len(args) = 1, flagGo)

\* the queue a worker reads and writes, the queue a submission goes to
QueueOf(i) == IF flagUnordered THEN 0 ELSE i
Cap == IF flagUnordered THEN workQueue ELSE balanceQueue

\* the state before main calls doScan; nothing of the pipeline exists yet
PipeIdle ==
  /\ pending = <<>>
  /\ first = TRUE
  /\ workers = 0
  /\ scattered = 0
  /\ work = <<>>
  /\ workClosed = FALSE
  /\ result = <<>>
  /\ resultClosed = FALSE
  /\ wk = <<>>
  /\ rep = [pc |-> "none", gathered |-> 0, completed |-> 0, total |-> SummaryZero]
  /\ output = <<>>
  /\ sc = [total |-> SummaryZero, complete |-> FALSE]
  /\ status = -1
  /\ submitted = <<>>

\* no function has been applied on its own
CallIdle ==
  /\ flagVisible = TRUE
  /\ callIn = <<>>
  /\ callOut = <<>>

\* no path has been resolved and no selector parsed
ResolveIdle ==
  /\ optH = FALSE
  /\ flagFileName = FALSE
  /\ flagLineNumber = FALSE
  /\ flagRecursive = FALSE
  /\ paths = [list |-> FALSE, listed |-> <<>>, named |-> <<>>, stdin |-> <<>>]
  /\ rPhase = "idle"
  /\ rQueue = <<>>
  /\ items = <<>>
  /\ rOut = <<>>
  /\ hMode = searchModeZero
  /\ CallIdle

HarnessIdle ==
  /\ hPhase = "idle"
  /\ hFile = PlainFile(GoName, <<>>)
  /\ hSel = <<>>
  /\ hBase = NewScan
  /\ hOut = NewScan
  /\ hPos = 0
  /\ hPrev = NewScan

\* ------------------------------------------------------------------ pipeline
fText == PlainFile(GoName, <<idX, spNewline, numHex, spNewline, idX>>)
\* a file that can no longer be opened when the worker comes to it
fDenied == [name |-> <<"c", ".go">>, lexemes |-> <<>>, unreadable |-> TRUE, corrupt |-> FALSE]
\* a compressed Go file whose stream the decoder rejects
fCorrupt ==
  [name |-> <<"c", ".go", ".gz">>, lexemes |-> <<idX>>, unreadable |-> FALSE, corrupt |-> TRUE]
PipeFiles == {fText, fCorrupt}

PipeWorks == {PlainWork(f) : f \in PipeFiles}

\* the files a path of the command line may turn out to be; a long command
\* line names copies of one file
PathFiles == IF nPaths > MaxItems THEN {fText} ELSE PipeFiles

PipeArgs == {<<<<"a">>, <<"x">>>>, <<<<"v">>, <<"2", "5", "5">>>>, <<<<"a">>, <<"(">>>>}

\* a Scan in flight: id is the submission number of the work item it answers
\* (history only, -1 for the sentinel), s the Scan itself
NoHeld == [id |-> -1, s |-> NewScan]
Sentinel == [id |-> -1, s |-> [NewScan EXCEPT !.complete = TRUE]]

\* the "if first" block of Scan.Scan: channels, workers and reporter are made
FirstBlock ==
  IF first
  THEN /\ workers' = flagCPUs
       /\ work' = [i \in 0..((IF flagUnordered THEN 1 ELSE flagCPUs) - 1) |-> <<>>]
       /\ result' = [i \in 0..((IF flagUnordered THEN 1 ELSE flagCPUs) - 1) |-> <<>>]
       /\ wk' = [i \in 0..(flagCPUs - 1) |-> [pc |-> "recv", held |-> NoHeld]]
       /\ rep' = [rep EXCEPT !.pc = "open"]
       /\ first' = FALSE
  ELSE UNCHANGED <<workers, work, result, wk, rep, first>>

\* doScan up to the first path: the pattern is compiled, the mode is set up
DoScanBegin ==
  /\ mpc = "main"
  /\ IF getRegexpErr(args[2])
     THEN /\ mpc' = "exited"
          /\ status' = 2
     ELSE /\ mpc' = "submit"
          /\ status' = status
  /\ UNCHANGED <<args, flagGo, flagUnordered, flagCPUs, outputOK, nPaths, pending, first,
                 workers, scattered, work, workClosed, result, resultClosed, wk, rep,
                 output, sc, submitted, scans, hvars>>

\* Scan.Scan(name, nil), up to the channel send
CallScan(f) ==
  /\ mpc = "submit"
  /\ Len(submitted) < nPaths
  /\ FirstBlock
  /\ pending' = [id |-> Len(submitted), name |-> f.name, source |-> <<>>, file |-> f]
  /\ submitted' = Append(submitted, f)
  /\ mpc' = "sending"
  /\ UNCHANGED <<args, flagGo, flagUnordered, flagCPUs, outputOK, nPaths, scattered,
                 workClosed, resultClosed, output, sc, status, scans, hvars>>

\* Scan.Scan: work[scattered%workers] <- Work{...}; scattered++
ScanSendAt(q) ==
  /\ mpc = "sending"
  /\ Len(work[q]) < Cap
  /\ work' = [work EXCEPT ![q] = Append(@, pending)]
  /\ pending' = <<>>
  /\ scattered' = scattered + 1
  /\ mpc' = "submit"
  /\ UNCHANGED <<args, flagGo, flagUnordered, flagCPUs, outputOK, nPaths, first, workers,
                 workClosed, result, resultClosed, wk, rep, output, sc, status, submitted,
                 scans, hvars>>

\* a submission that always goes to the first queue
ScatterToFirst == IF flagUnordered THEN 0 ELSE scattered % 1

\* the queue the next submission goes to
ScatterTo == IF flagUnordered THEN 0 ELSE scattered % workers

ScanSend == ScanSendAt(ScatterTo)

\* Scan.Complete: s.Scan("", nil) closes the work channels
CompleteClose ==
  /\ mpc = "submit"
  /\ Len(submitted) = nPaths
  /\ ~sc.complete
  /\ FirstBlock
  /\ workClosed' = TRUE
  /\ mpc' = "waitdone"
  /\ UNCHANGED <<args, flagGo, flagUnordered, flagCPUs, outputOK, nPaths, pending,
                 scattered, resultClosed, output, sc, status, submitted, scans, hvars>>

\* variant: completion is not recorded
CompleteFinishUnrecorded ==
  /\ mpc = "closing"
  /\ resultClosed' = TRUE
  /\ sc' = sc
  /\ mpc' = "returned"
  /\ UNCHANGED <<args, flagGo, flagUnordered, flagCPUs, outputOK, nPaths, pending, first,
                 workers, scattered, work, workClosed, result, wk, rep, output, status,
                 submitted, scans, hvars>>

\* variant: the result channels are closed before the summary has arrived
CompleteFinishEarly ==
  /\ mpc \in {"waitdone", "closing"}
  /\ resultClosed' = TRUE
  /\ sc' = [sc EXCEPT !.complete = TRUE]
  /\ mpc' = "returned"
  /\ UNCHANGED <<args, flagGo, flagUnordered, flagCPUs, outputOK, nPaths, pending, first,
                 workers, scattered, work, workClosed, result, wk, rep, output, status,
                 submitted, scans, hvars>>

\* Scan.Complete after <-done: the result channels are closed, total returned
CompleteFinish ==
  /\ mpc = "closing"
  /\ resultClosed' = TRUE
  /\ sc' = [sc EXCEPT !.complete = TRUE]
  /\ mpc' = "returned"
  /\ UNCHANGED <<args, flagGo, flagUnordered, flagCPUs, outputOK, nPaths, pending, first,
                 workers, scattered, work, workClosed, result, wk, rep, output, status,
                 submitted, scans, hvars>>

\* doMain: "return grep-compatible program status"
programStatus(err, matches) ==
  IF err THEN 2 ELSE IF matches <= 0 THEN 1 ELSE 0

DoMainExit ==
  /\ mpc = "returned"
  /\ status' = programStatus(FALSE, sc.total.matches)
  /\ mpc' = "exited"
  /\ UNCHANGED <<args, flagGo, flagUnordered, flagCPUs, outputOK, nPaths, pending, first,
                 workers, scattered, work, workClosed, result, resultClosed, wk, rep,
                 output, sc, submitted, scans, hvars>>

\* s.scan(w.name, w.source) in the worker, read from the table of the run
scanWork(w) == scans[[name |-> w.name, source |-> w.source, file |-> w.file]]

\* worker: what follows the range loop; a worker that just returned
WorkerAfterRangeReturn == "exit"

\* worker: what follows the range loop: the sentinel is sent
WorkerAfterRange == "sentinel"

\* worker: "for w := range wIn" takes the next Work and scans it, or finds the
\* channel closed and drained
WorkerRecv(i) ==
  /\ i \in DOMAIN wk
  /\ wk[i].pc = "recv"
  /\ LET q == QueueOf(i) IN
     IF Len(work[q]) > 0
     THEN /\ wk' = [wk EXCEPT ![i] = [pc |-> "send",
                                      held |-> [id |-> Head(work[q]).id,
                                                s |-> scanWork(Head(work[q]))]]]
          /\ work' = [work EXCEPT ![q] = Tail(@)]
     ELSE /\ workClosed
          /\ wk' = [wk EXCEPT ![i] = [pc |-> WorkerAfterRange, held |-> Sentinel]]
          /\ work' = work
  /\ UNCHANGED <<args, flagGo, flagUnordered, flagCPUs, outputOK, nPaths, mpc, pending,
                 first, workers, scattered, workClosed, result, resultClosed, rep, output,
                 sc, status, submitted, scans, hvars>>

\* worker: "sOut <- s" and "sOut <- &Scan{complete: true}"
WorkerSend(i) ==
  /\ i \in DOMAIN wk
  /\ wk[i].pc \in {"send", "sentinel"}
  /\ Len(result[QueueOf(i)]) < Cap
  /\ result' = [result EXCEPT ![QueueOf(i)] = Append(@, wk[i].held)]
  /\ wk' = [wk EXCEPT ![i] = [pc |-> IF wk[i].pc = "send" THEN "recv" ELSE "exit",
                              held |-> NoHeld]]
  /\ UNCHANGED <<args, flagGo, flagUnordered, flagCPUs, outputOK, nPaths, mpc, pending,
                 first, workers, scattered, work, workClosed, resultClosed, rep, output,
                 sc, status, submitted, scans, hvars>>

\* reporter: the output sink is selected; os.Create may fail, and then the
\* reporter returns
ReporterOpen ==
  /\ rep.pc = "open"
  /\ rep' = [rep EXCEPT !.pc = IF outputOK THEN "loop" ELSE "failed"]
  /\ UNCHANGED <<args, flagGo, flagUnordered, flagCPUs, outputOK, nPaths, mpc, pending,
                 first, workers, scattered, work, workClosed, result, resultClosed, wk,
                 output, sc, status, submitted, scans, hvars>>

\* reporter: a total that takes the file count from the Scan
addTotalFiles(total, s) ==
  [bytes |-> total.bytes + s.bytes, tokens |-> total.tokens + s.tokens,
   matches |-> total.matches + s.matches, lines |-> total.lines + s.lines,
   files |-> total.files + s.files]

\* reporter: total.x += s.x, total.files++
addTotal(total, s) ==
  [bytes |-> total.bytes + s.bytes, tokens |-> total.tokens + s.tokens,
   matches |-> total.matches + s.matches, lines |-> total.lines + s.lines,
   files |-> total.files + 1]

\* reporter: a loop that stops at the first sentinel
AnyWorkerDone(completed) == completed >= 1

\* reporter: "if completed == workers { break }"
AllWorkersDone(completed) == completed = workers

\* reporter: a receive that is one queue ahead of the submissions
GatherFromSkewed == IF flagUnordered THEN 0 ELSE (rep.gathered + 1) % workers

\* the queue the reporter receives from next
GatherFrom == IF flagUnordered THEN 0 ELSE rep.gathered % workers

\* reporter: one iteration of the loop with the receive taken from queue q
ReporterRecvAt(q) ==
  /\ rep.pc = "loop"
  /\ Len(result[q]) > 0
  /\ LET r == Head(result[q]) IN
     IF r.s.complete
     THEN /\ rep' = [rep EXCEPT !.gathered = @ + 1, !.completed = @ + 1,
                                !.pc = IF AllWorkersDone(rep.completed + 1) THEN "signal"
                                       ELSE "loop"]
          /\ output' = output
     ELSE /\ rep' = [rep EXCEPT !.gathered = @ + 1, !.total = addTotal(@, r.s)]
          /\ output' = Append(output, [id |-> r.id, report |-> r.s.report])
  /\ result' = [result EXCEPT ![q] = Tail(@)]
  /\ UNCHANGED <<args, flagGo, flagUnordered, flagCPUs, outputOK, nPaths, mpc, pending,
                 first, workers, scattered, work, workClosed, resultClosed, wk, sc, status,
                 submitted, scans, hvars>>

ReporterRecv == ReporterRecvAt(GatherFrom)

\* "done <- total" meets "s.total = <-done" of Scan.Complete (unbuffered)
ReporterDone ==
  /\ rep.pc = "signal"
  /\ mpc = "waitdone"
  /\ sc' = [sc EXCEPT !.total = rep.total]
  /\ rep' = [rep EXCEPT !.pc = "exit"]
  /\ mpc' = "closing"
  /\ UNCHANGED <<args, flagGo, flagUnordered, flagCPUs, outputOK, nPaths, pending, first,
                 workers, scattered, work, workClosed, result, resultClosed, wk, output,
                 status, submitted, scans, hvars>>

Main ==
  \/ DoScanBegin
  \/ \E f \in PathFiles : CallScan(f)
  \/ ScanSend
  \/ CompleteClose
  \/ CompleteFinish
  \/ DoMainExit

Worker(i) == WorkerRecv(i) \/ WorkerSend(i)

Reporter == ReporterOpen \/ ReporterRecv \/ ReporterDone

Next ==
  \/ Main
  \/ \E i \in 0..(MaxWorkers - 1) : Worker(i)
  \/ Reporter

Init ==
  /\ args \in PipeArgs
  /\ flagGo = TRUE
  /\ flagUnordered \in BOOLEAN
  /\ flagCPUs \in 2..MaxWorkers
  /\ outputOK \in BOOLEAN
  /\ nPaths \in 0..MaxItems
  /\ mpc = "main"
  /\ scans = [w \in PipeWorks |-> scan(w, Config(args, FALSE, flagGo))]
  /\ PipeIdle
  /\ HarnessIdle
  /\ ResolveIdle

Spec == Init /\ [][Next]_vars

\* the runs whose termination is examined: a pattern that compiles
InitFair == Init /\ args = <<<<"a">>, <<"x">>>>

\* every goroutine that can take a step eventually takes one
FairSpec ==
  /\ InitFair
  /\ [][Next]_vars
  /\ WF_vars(Main)
  /\ \A i \in 0..(MaxWorkers - 1) : WF_vars(Worker(i))
  /\ WF_vars(Reporter)

\* a command line with more files than the queues and workers can hold
InitBacklog ==
  /\ args = <<<<"a">>, <<"x">>>>
  /\ flagGo = TRUE
  /\ flagUnordered \in BOOLEAN
  /\ flagCPUs = 2
  /\ outputOK \in BOOLEAN
  /\ nPaths = MaxBacklog
  /\ mpc = "main"
  /\ scans = [w \in PipeWorks |-> scan(w, Config(args, FALSE, flagGo))]
  /\ PipeIdle
  /\ HarnessIdle
  /\ ResolveIdle

SpecBacklog == InitBacklog /\ [][Next]_vars

\* ------------------------------------------------------------------ harness
\* gg is run on one file with selector a and then with another selector, the
\* pattern and the flags being the same, as the comparison scripts do.
fBinary ==
  PlainFile(GoName, [i \in 1..(nonPrintLimit + 1) |-> Lexeme("Character", "", <<"^@">>)])

\* a file of nonPrintLimit control bytes and nothing else
fNineControls ==
  PlainFile(GoName, [i \in 1..nonPrintLimit |-> Lexeme("Character", "", <<"^@">>)])

HarnessFiles == GenFiles \cup {fBinary, fNineControls, fDenied, fCorrupt}

HStart ==
  /\ hPhase = "start"
  /\ hBase' = scan(PlainWork(hFile), Config(<<<<"a">>, args[2]>>, FALSE, flagGo))
  /\ hPhase' = "base"
  /\ UNCHANGED <<pvars, hFile, hSel, hOut, hPos, hPrev>>

HRun(sel) ==
  /\ hPhase = "base"
  /\ hSel' = sel
  /\ hOut' = scan(PlainWork(hFile), Config(<<sel, args[2]>>, FALSE, flagGo))
  /\ hPhase' = "ran"
  /\ UNCHANGED <<pvars, hFile, hBase, hPos, hPrev>>

NextScan ==
  \/ HStart
  \/ \E sel \in Selectors : HRun(sel)

InitScan ==
  /\ args \in {<<<<"a">>, p>> : p \in Patterns}
  /\ flagGo \in BOOLEAN
  /\ flagUnordered = FALSE
  /\ flagCPUs = 2
  /\ outputOK = TRUE
  /\ nPaths = 1
  /\ mpc = "harness"
  /\ scans = <<>>
  /\ PipeIdle
  /\ hPhase = "start"
  /\ hFile \in HarnessFiles
  /\ hSel = <<>>
  /\ hBase = NewScan
  /\ hOut = NewScan
  /\ hPos = 0
  /\ hPrev = NewScan
  /\ ResolveIdle

SpecScan == InitScan /\ [][NextScan]_vars

\* ------------------------------------------------------------------ claims
\* the Scan that a worker computes for the k-th submitted file (k from 0)
ScanOf(k) == scan(PlainWork(submitted[k + 1]), RunCfg)

OutputIds == {output[k].id : k \in 1..Len(output)}

\* C1: in ordered mode the reporter writes the reports in submission order,
\* each in one piece: the k-th write is the whole report of the k-th
\* submitted item, so the report of item i is complete before any part of the
\* report of a later item j is written.
C1_OrderedOutput ==
  ~flagUnordered =>
     /\ \A a, b \in 1..Len(output) : a < b => output[a].id < output[b].id
     /\ \A k \in 1..Len(output) :
           /\ output[k].id = k - 1
           /\ output[k].report = ScanOf(output[k].id).report

\* C1 witness: ordered mode, three reports written, the first and the last
\* with records, handled by different workers
C1_Witness ==
  /\ ~flagUnordered
  /\ Len(output) = 3
  /\ output[1].report # <<>>
  /\ output[2].report = <<>>
  /\ output[3].report # <<>>

AllQueuesEmpty ==
  /\ \A q \in DOMAIN work : work[q] = <<>>
  /\ \A q \in DOMAIN result : result[q] = <<>>

\* the reporter has left its loop only after one sentinel of every worker:
\* every worker has exited, nothing is left in a queue, and the reporter has
\* received every result and exactly N sentinels
C2_StoppedAfterSentinels ==
  rep.pc \in {"signal", "exit"} =>
     /\ rep.completed = workers
     /\ \A i \in DOMAIN wk : wk[i].pc = "exit"
     /\ AllQueuesEmpty
     /\ rep.gathered = Len(submitted) + workers

\* C2: once the work queues are closed and the output sink is open, the
\* workers drain, each sends one sentinel as its last message and exits, the
\* reporter stops after exactly N sentinels and Complete returns; for every
\* number of items (zero included), ordered or unordered.
C2_CompleteReturns ==
  /\ [](C2_StoppedAfterSentinels)
  /\ ((workClosed /\ outputOK) ~> sc.complete)

\* C2 witness: Complete has returned although no item was submitted
C2_Witness ==
  /\ sc.complete
  /\ outputOK
  /\ submitted = <<>>
  /\ rep.completed = workers

RECURSIVE SumField(_, _)
\* the sum of one field over the Scans of the first k submitted files
SumField(k, field) ==
  IF k = 0 THEN 0 ELSE ScanOf(k - 1)[field] + SumField(k - 1, field)

\* C5: the summary Complete returns is the field-wise sum over the results of
\* all submitted items, and its file count is the number of submitted items,
\* failed items included.
C5_SummaryIsSum ==
  sc.complete =>
     sc.total = [bytes |-> SumField(Len(submitted), "bytes"),
                 tokens |-> SumField(Len(submitted), "tokens"),
                 matches |-> SumField(Len(submitted), "matches"),
                 lines |-> SumField(Len(submitted), "lines"),
                 files |-> Len(submitted)]

\* C5 witness: a completed unordered run with a corrupt file among the
\* submitted ones and a non-zero match count
C5_Witness ==
  /\ sc.complete
  /\ flagUnordered
  /\ Len(submitted) = 3
  /\ \E k \in 1..3 : submitted[k] = fCorrupt
  /\ sc.total.matches > 0

\* where the item with submission number id currently is
InWorkQueue(id) == \E q \in DOMAIN work : \E k \in 1..Len(work[q]) : work[q][k].id = id
HeldBy(id) == {i \in DOMAIN wk : wk[i].pc = "send" /\ wk[i].held.id = id}
InResultQueue(id) ==
  \E q \in DOMAIN result : \E k \in 1..Len(result[q]) : result[q][k].id = id
Written(id) == {k \in 1..Len(output) : output[k].id = id}

Places(id) ==
  (IF InWorkQueue(id) THEN 1 ELSE 0) + Cardinality(HeldBy(id))
  + (IF InResultQueue(id) THEN 1 ELSE 0) + Cardinality(Written(id))

\* C8: in unordered mode every enqueued item is in exactly one place (the
\* work queue, one worker, the result queue or the output), its report is
\* written once and whole, and when the reporter signals the summary every
\* submitted item has been written.
C8_UnorderedExactlyOnce ==
  flagUnordered =>
     /\ \A id \in 0..(scattered - 1) : Places(id) = 1
     /\ \A k \in 1..Len(output) : output[k].report = ScanOf(output[k].id).report
     /\ rep.pc \in {"signal", "exit"} =>
           /\ Len(output) = Len(submitted)
           /\ OutputIds = 0..(Len(submitted) - 1)

\* C8 witness: an unordered run that has signalled the summary after writing
\* three reports out of submission order
C8_Witness ==
  /\ flagUnordered
  /\ rep.pc = "exit"
  /\ Len(output) = 3
  /\ output[1].id > output[2].id

RECURSIVE RecordsWritten(_)
\* the number of match records in the first k writes of the reporter
RecordsWritten(k) ==
  IF k = 0 THEN 0 ELSE Len(output[k].report) + RecordsWritten(k - 1)

\* C4: the exit status is 2 on a run-level error, else 0 exactly when at
\* least one match record was written to the output, else 1; a run whose only
\* records are value matches exits with 0.
C4_ExitStatus ==
  mpc = "exited" =>
     status = IF getRegexpErr(args[2]) THEN 2
              ELSE IF RecordsWritten(Len(output)) > 0 THEN 0 ELSE 1

\* what worker i is waiting for, read off its own two queues alone
OwnQueuesAllow(i) ==
  \/ wk[i].pc = "recv" /\ (Len(work[QueueOf(i)]) > 0 \/ workClosed)
  \/ wk[i].pc \in {"send", "sentinel"} /\ Len(result[QueueOf(i)]) < Cap

\* C9: while a Scan call is waiting to enqueue its work item some goroutine
\* can always take a step, so the call returns even when more items are
\* submitted than the queues hold; and whether a worker can step depends on
\* its own two queues only.
C9_NeverStalls ==
  /\ mpc = "sending" => ENABLED Next
  /\ \A i \in DOMAIN wk : (ENABLED Worker(i)) <=> OwnQueuesAllow(i)


\* ------------------------------------------------------------------ token loop
\* Scan.scan on one file of number literals, one token of the loop at a time.
numHexUpper == Lexeme("Number", "Hexadecimal", <<"0", "x", "F", "F">>)
numOctal == Lexeme("Number", "Octal", <<"0", "3", "7", "7">>)
numOctalO == Lexeme("Number", "Octal", <<"0", "o", "3", "7", "7">>)
numBinary ==
  Lexeme("Number", "Binary", <<"0", "b", "1", "1", "1", "1", "_", "1", "1", "1", "1">>)
numSeparated == Lexeme("Number", "Decimal", <<"2", "_", "5", "5">>)
numHex255 == Lexeme("Number", "Hexadecimal", <<"0", "x", "2", "5", "5">>)
num256 == Lexeme("Number", "Decimal", <<"2", "5", "6">>)
numOctal255 == Lexeme("Number", "Octal", <<"0", "2", "5", "5">>)
numFloat == Lexeme("Number", "Floating", <<"2", ".", "5", "5">>)
idX255 == Lexeme("Identifier", "ASCII", <<"x", "2", "5", "5">>)

NumberPool ==
  {num255, numHex, numHexUpper, numOctal, numOctalO, numBinary, numSeparated, numHex255,
   num256, numOctal255, numFloat, idX255, spBlank, spNewline}

\* the one line  x := 255; y := 0xff; z := 0b1111_1111; s := "255"
fValues ==
  LET id(c) == Lexeme("Identifier", "ASCII", <<c>>)
      define == Lexeme("Operator", "", <<":", "=">>)
      semi == Lexeme("Operator", "", <<";">>)
      str == Lexeme("String", "Interpreted", <<"\"", "2", "5", "5", "\"">>)
  IN PlainFile(GoName,
       <<id("x"), spBlank, define, spBlank, num255, semi, spBlank,
         id("y"), spBlank, define, spBlank, numHex, semi, spBlank,
         id("z"), spBlank, define, spBlank, numBinary, semi, spBlank,
         id("s"), spBlank, define, spBlank, str>>)

NumberFiles ==
  {PlainFile(GoName, ls) : ls \in {l \in SeqsUpTo(NumberPool, MaxTokens) : WellLexed(l)}}
  \cup {fValues}

ValueArgs ==
  {<<sel, q>> : sel \in {<<"v">>, <<"n", "v">>, <<"a">>, <<"i", "v">>, <<"v", "g">>},
                q \in {<<"2", "5", "5">>, <<"0", "3", "7", "7">>, <<"-", "2", "5", "5">>}}

ScanBegin ==
  /\ hPhase = "open"
  /\ LET d == decompress(PlainWork(hFile)) IN
     IF scanSkips(d, RunCfg) \/ RunCfg.flagActLikeGrep \/ RunCfg.mode.G
     THEN /\ hOut' = scan(PlainWork(hFile), RunCfg)
          /\ hPhase' = "done"
     ELSE /\ hOut' = scanStart(d)
          /\ hPhase' = "tokens"
  /\ UNCHANGED <<pvars, hFile, hSel, hBase, hPos, hPrev>>

ScanStep ==
  /\ hPhase = "tokens"
  /\ hPos < Len(hFile.lexemes)
  /\ hPrev' = hOut
  /\ hOut' = scanToken(hOut, Lex(hFile.lexemes, 1)[hPos + 1], RunCfg, Source(hFile))
  /\ hPos' = hPos + 1
  /\ UNCHANGED <<pvars, hPhase, hFile, hSel, hBase>>

ScanEnd ==
  /\ hPhase = "tokens"
  /\ hPos = Len(hFile.lexemes)
  /\ hPhase' = "done"
  /\ UNCHANGED <<pvars, hFile, hSel, hBase, hOut, hPos, hPrev>>

NextValue ==
  \/ ScanBegin
  \/ ScanStep
  \/ ScanEnd

InitValue ==
  /\ args \in ValueArgs
  /\ flagGo = TRUE
  /\ flagUnordered = FALSE
  /\ flagCPUs = 2
  /\ outputOK = TRUE
  /\ nPaths = 1
  /\ mpc = "harness"
  /\ scans = <<>>
  /\ PipeIdle
  /\ hPhase = "open"
  /\ hFile \in NumberFiles
  /\ hSel = <<>>
  /\ hBase = NewScan
  /\ hOut = NewScan
  /\ hPos = 0
  /\ hPrev = NewScan
  /\ ResolveIdle

SpecValue == InitValue /\ [][NextValue]_vars

\* ---- claims about the scan of one file
\* the runs the harness has made so far: selector and resulting Scan
HarnessRuns ==
  (IF hPhase \in {"base", "ran"} THEN {[sel |-> <<"a">>, s |-> hBase]} ELSE {})
  \cup (IF hPhase = "ran" THEN {[sel |-> hSel, s |-> hOut]} ELSE {})

TokenMode(sel) == \A k \in 1..Len(sel) : sel[k] # "g"

\* C3: within the report of one file the line numbers of the records are
\* strictly increasing, so no two records share a line and only the first
\* match of a line is recorded; for plain token, package-name and value
\* matches and for the sub-lines of multi-line raw strings and comments.
C3_LinesIncrease ==
  \A run \in HarnessRuns :
     \A i \in 1..(Len(run.s.report) - 1) :
        run.s.report[i].line < run.s.report[i + 1].line

\* C3 witness: a token-mode run with at least two records in which a later
\* match on an already recorded line was counted but not recorded
C3_Witness ==
  /\ hPhase = "ran"
  /\ TokenMode(hSel)
  /\ Len(hOut.report) >= 2
  /\ hOut.matches > Len(hOut.report)

IsMultiLine(t) ==
  /\ (t.tok = "String" /\ t.sub = "Raw") \/ (t.tok = "Comment" /\ t.sub = "Block")
  /\ Count(t.text, NL) > 0

\* line number and trimmed text of every line of every multi-line raw string
\* or block comment of the file
BodyLines(f) ==
  LET toks == Lex(f.lexemes, 1) IN
  UNION {{[line |-> toks[j].line + k - 1, text |-> trim(LinerLines(toks[j].text)[k])] :
             k \in 1..Len(LinerLines(toks[j].text))} :
         j \in {i \in 1..Len(toks) : IsMultiLine(toks[i])}}

\* C10: in token mode every record that is not a line of the body of a
\* multi-line raw string or block comment carries the full source line of
\* the matched token, package-name and value matches included.
C10_FullSourceLine ==
  \A run \in HarnessRuns :
     TokenMode(run.sel) =>
        \A i \in 1..Len(run.s.report) :
           LET r == run.s.report[i] IN
           \/ [line |-> r.line, text |-> r.text] \in BodyLines(hFile)
           \/ r.text = GetLine(Source(hFile), r.line)

ClassLetter(tok) ==
  CASE tok = "Comment" -> "C" [] tok = "Operator" -> "O" [] tok = "String" -> "S"
    [] tok = "Rune" -> "R" [] tok = "Identifier" -> "I" [] tok = "Number" -> "N"
    [] tok = "Keyword" -> "K" [] tok = "Type" -> "T" [] tok = "Other" -> "D"
    [] OTHER -> "none"

ClassLetters == {"C", "D", "I", "K", "N", "O", "P", "R", "S", "T", "V"}

\* token j is the identifier after a package keyword
IsPackageName(toks, j) ==
  /\ toks[j].tok = "Identifier"
  /\ \E i \in 1..(j - 1) :
        /\ toks[i].tok = "Keyword" /\ toks[i].text = <<"p", "a", "c", "k", "a", "g", "e">>
        /\ \A m \in (i + 1)..(j - 1) : toks[m].tok # "Identifier"

\* the classes of the tokens that match the pattern on line L of the file
MatchClasses(f, pattern, L) ==
  LET toks == Lex(f.lexemes, 1)
      mode == setupModeGG(<<<<"a">>, pattern>>, FALSE)
      onLine(t) ==
        IF IsMultiLine(t)
        THEN \E k \in 1..Len(LinerLines(t.text)) :
                t.line + k - 1 = L /\ regexMatch(pattern, LinerLines(t.text)[k])
        ELSE t.line = L /\ regexMatch(pattern, t.text)
  IN {ClassLetter(toks[j].tok) : j \in {i \in 1..Len(toks) : onLine(toks[i])}}
     \cup {"P" : j \in {i \in 1..Len(toks) : IsPackageName(toks, i) /\ onLine(toks[i])}}
     \cup {"V" : j \in {i \in 1..Len(toks) :
                          /\ toks[i].tok = "Number" /\ toks[i].line = L
                          /\ mode.V /\ mode.vIsInt /\ ~ParseUint(toks[i].text).err
                          /\ ParseUint(toks[i].text).val = mode.vInt}}

Records(s) == {s.report[i] : i \in 1..Len(s.report)}

\* C7: category isolation.  For every class X the records of the run with
\* selector aX are among the records of the run with selector a, and the
\* records that are missing are exactly those of the lines whose only
\* matching tokens are of class X.
C7_CategoryIsolation ==
  (hPhase = "ran" /\ Len(hSel) = 2 /\ hSel[1] = "a" /\ hSel[2] \in ClassLetters) =>
     /\ Records(hOut) \subseteq Records(hBase)
     /\ {r.line : r \in Records(hBase) \ Records(hOut)}
        = {L \in 1..(Count(Source(hFile), NL) + 1) :
              MatchClasses(hFile, args[2], L) = {hSel[2]}}


\* ---- claims about the value match
\* the value of a number literal under Go's base-prefix integer syntax, -1
\* for a text that is no unsigned integer literal
LiteralValue(text) ==
  CASE text = <<"2", "5", "5">> -> 255
    [] text = <<"0", "x", "f", "f">> -> 255
    [] text = <<"0", "x", "F", "F">> -> 255
    [] text = <<"0", "3", "7", "7">> -> 255
    [] text = <<"0", "o", "3", "7", "7">> -> 255
    [] text = <<"0", "b", "1", "1", "1", "1", "_", "1", "1", "1", "1">> -> 255
    [] text = <<"2", "_", "5", "5">> -> 255
    [] text = <<"0", "x", "2", "5", "5">> -> 597
    [] text = <<"2", "5", "6">> -> 256
    [] text = <<"0", "2", "5", "5">> -> 173
    [] OTHER -> -1

Selects(sel, class) == \E k \in 1..Len(sel) : sel[k] = class

\* the token the loop has taken last
LastToken == Lex(hFile.lexemes, 1)[hPos]

\* the loop has just taken a Number token on a line without a record, value
\* matching is active and the query is an unsigned integer
NumberOnFreshLine ==
  /\ hPhase \in {"tokens", "done"}
  /\ hPos >= 1
  /\ LastToken.tok = "Number"
  /\ Selects(args[1], "v") \/ Selects(args[1], "a")
  /\ LiteralValue(args[2]) >= 0
  /\ \A i \in 1..Len(hPrev.report) : hPrev.report[i].line # LastToken.line

RecordAdded ==
  /\ Len(hOut.report) = Len(hPrev.report) + 1
  /\ hOut.report[Len(hOut.report)].line = LastToken.line

\* C6 as stated: with value matching active and an unsigned integer query q,
\* a Number token on a line without a record produces a record if and only
\* if its text has, as an unsigned integer literal, exactly the value q.
C6_ValueMatchIff ==
  NumberOnFreshLine =>
     (RecordAdded <=> LiteralValue(LastToken.text) = LiteralValue(args[2]))

\* C6 amended: the same when class N (numbers matched as text) is not
\* selected; with N selected a Number token whose text matches the pattern
\* produces a record whatever its value.
C6_ValueMatchIffWithoutN ==
  (NumberOnFreshLine /\ ~Selects(args[1], "n") /\ ~Selects(args[1], "a")) =>
     (RecordAdded <=> LiteralValue(LastToken.text) = LiteralValue(args[2]))

\* C6 witness: under selector v and query 255 the binary literal
\* 0b1111_1111, met on a line without a record, has produced a record
C6_Witness ==
  /\ NumberOnFreshLine
  /\ args = <<<<"v">>, <<"2", "5", "5">>>>
  /\ LastToken.text = numBinary.text
  /\ RecordAdded
  /\ LastToken.line = 2


\* ------------------------------------------------------------------ paths
\* doMain and doScan from the flags to the Work items: Scan.File,
\* processRegularFile, scanFile and the multiReader.  A path of the file
\* system is a record: name, kind ("file", "dir" or "missing"), the lexemes of
\* a source file, the members of an archive, the children of a directory.
\* The names of the pool are all visible (no component starts with a dot).
\* variants: the compression suffix is not unwrapped
isGoNoUnwrap(name, go) == ~go \/ Ext(name) = ".go"

isArchiveNoUnwrap(name) == Ext(name) \in {".cpio", ".tar", ".zip"}

isGo(name, go) ==
  IF ~go THEN TRUE
  ELSE Ext(IF isCompressed(name) THEN TrimExt(name) ELSE name) = ".go"

isArchive(name) ==
  Ext(IF isCompressed(name) THEN TrimExt(name) ELSE name) \in {".cpio", ".tar", ".zip"}

Entry(name, kind, lexemes, members, children) ==
  [name |-> name, kind |-> kind, lexemes |-> lexemes, unreadable |-> FALSE,
   corrupt |-> FALSE, members |-> members, children |-> children]

memberGo == PlainFile(<<"a", ".go">>, <<idX, spNewline, idX>>)
memberText == PlainFile(<<"b", ".txt">>, <<idX>>)

ArchiveOf(stem, exts) ==
  Entry(<<stem>> \o exts, "file", <<>>, <<memberGo, memberText>>, <<>>)

pGo == Entry(<<"a", ".go">>, "file", <<idX, spNewline, idX>>, <<>>, <<>>)
pTar == ArchiveOf("pkg", <<".tar">>)
pTarGz == ArchiveOf("pkg", <<".tar", ".gz">>)
pTarBz2 == ArchiveOf("pkg", <<".tar", ".bz2">>)
pCpio == ArchiveOf("pkg", <<".cpio">>)
pCpioZst == ArchiveOf("pkg", <<".cpio", ".zst">>)
pZip == ArchiveOf("pkg", <<".zip">>)
\* q.zip.gz; no file q.zip exists
pZipGz == ArchiveOf("q", <<".zip", ".gz">>)
\* bad.zip exists but is not a valid zip file
pZipBad == [ArchiveOf("bad", <<".zip">>) EXCEPT !.corrupt = TRUE]
pSub ==
  Entry(<<"sub">>, "dir", <<>>, <<>>,
        <<Entry(<<"b", ".go">>, "file", <<idX>>, <<>>, <<>>), ArchiveOf("q", <<".zip">>)>>)
pDir == Entry(<<"d">>, "dir", <<>>, <<>>, <<pGo, pTar, pSub>>)
pMissing == Entry(<<"m", ".go">>, "missing", <<>>, <<>>, <<>>)

\* l.go is named in the -list file, s.go on standard input
pListed == Entry(<<"l", ".go">>, "file", <<idX>>, <<>>, <<>>)
pStdin == Entry(<<"s", ".go">>, "file", <<idX>>, <<>>, <<>>)

PathPool ==
  {pGo, pTar, pTarGz, pTarBz2, pCpio, pCpioZst, pZip, pZipGz, pZipBad, pDir, pMissing}

\* the regular files that exist under the names the command line can give
Disk == {e \in PathPool : e.kind = "file"}

\* filepath.Join(name, base.Name())
Join(dir, base) == dir \o <<"/">> \o base

\* the extension codes of the multiReader (iota)
eCPIO == 0
eTAR == 1
eZIP == 2

\* &multiReader{}: every field has its zero value, ext included
multiReaderZero == [ext |-> 0, hasReader |-> FALSE, members |-> <<>>, zipIndex |-> 0]

\* newMultiReader(r, ext, name): r is given as the members the reader yields
newMultiReader(r, ext, name) ==
  CASE ext = ".cpio" -> [ext |-> eCPIO, hasReader |-> TRUE, members |-> r, zipIndex |-> 0]
    [] ext = ".tar" -> [ext |-> eTAR, hasReader |-> TRUE, members |-> r, zipIndex |-> 0]
    [] ext = ".zip" ->
         IF \E e \in Disk : e.name = name /\ ~e.unreadable /\ ~e.corrupt
         THEN [ext |-> eZIP, hasReader |-> TRUE,
               members |-> (CHOOSE e \in Disk : e.name = name).members, zipIndex |-> -1]
         ELSE multiReaderZero
    [] OTHER -> multiReaderZero

\* variant: the index advances by two
zipNextSkip(r) ==
  LET idx == r.zipIndex + 2 IN
  IF idx >= Len(r.members)
  THEN [reader |-> [r EXCEPT !.zipIndex = idx], name |-> <<>>, err |-> "EOF"]
  ELSE [reader |-> [r EXCEPT !.zipIndex = idx], name |-> r.members[idx + 1].name,
        err |-> "nil"]

\* one call of multiReader.Next on a zip reader whose members all open
zipNext(r) ==
  LET idx == r.zipIndex + 1 IN
  IF idx >= Len(r.members)
  THEN [reader |-> [r EXCEPT !.zipIndex = idx], name |-> <<>>, err |-> "EOF"]
  ELSE [reader |-> [r EXCEPT !.zipIndex = idx], name |-> r.members[idx + 1].name,
        err |-> "nil"]

\* the first call of multiReader.Next: "ok", "EOF", "panic" (a nil reader is
\* dereferenced) or "internal reader not found"
multiReaderNext(r) ==
  IF r.ext \in {eCPIO, eTAR, eZIP}
  THEN IF ~r.hasReader THEN "panic"
       ELSE IF r.members = <<>> THEN "EOF" ELSE "ok"
  ELSE "internal reader not found"

RECURSIVE memberItems(_, _, _)
\* the loop of scanFile over the members the reader yields
memberItems(fileName, members, go) ==
  IF members = <<>> THEN <<>>
  ELSE LET m == Head(members)
           memberName == fileName \o <<"::">> \o m.name
       IN (IF isGo(m.name, go)
           THEN <<[name |-> memberName, source |-> Source(m), file |-> m]>>
           ELSE <<>>)
          \o memberItems(fileName, Tail(members), go)

NoItems == [items |-> <<>>, panic |-> FALSE]

\* scanFile(fileName, r, s): the Scan calls it makes, or the panic
scanFile(fileName, r, go) ==
  CASE multiReaderNext(r) = "panic" -> [items |-> <<>>, panic |-> TRUE]
    [] multiReaderNext(r) = "ok" ->
         [items |-> memberItems(fileName, r.members, go), panic |-> FALSE]
    [] OTHER -> NoItems

\* processRegularFile(name, s) for the file e.  The bytes of an archive are
\* not spelled out: data is non-empty exactly when a compressed archive was
\* decompressed.
processRegularFile(e, go) ==
  LET packed == isArchive(e.name) /\ isCompressed(e.name)
      d == decompress([name |-> e.name, source |-> <<>>, file |-> e])
      name == IF packed THEN d.newName ELSE e.name
      ext == Ext(name)
  IN IF packed /\ d.err THEN NoItems
     ELSE IF ~packed /\ e.unreadable THEN NoItems
     ELSE IF ext \in {".cpio", ".tar"}
     THEN scanFile(name, newMultiReader(e.members, ext, <<>>), go)
     ELSE IF ext = ".zip" THEN scanFile(name, newMultiReader(<<>>, ext, name), go)
     ELSE IF isGo(name, go)
     THEN [items |-> <<[name |-> name, source |-> <<>>, file |-> e]>>, panic |-> FALSE]
     ELSE NoItems

RECURSIVE dirItems(_, _, _)
\* Scan.File on a directory without -r: the Go files among its entries
dirItems(dir, bases, go) ==
  IF bases = <<>> THEN <<>>
  ELSE LET fullName == Join(dir, Head(bases).name) IN
       (IF isGo(fullName, go)
        THEN <<[name |-> fullName, source |-> <<>>, file |-> Head(bases)]>>
        ELSE <<>>)
       \o dirItems(dir, Tail(bases), go)

RECURSIVE walkItems(_, _, _)
\* Scan.File on a directory with -r: filepath.Walk and the walker
walkItems(dir, bases, go) ==
  IF bases = <<>> THEN <<>>
  ELSE LET path == Join(dir, Head(bases).name) IN
       (IF Head(bases).kind = "dir" THEN walkItems(path, Head(bases).children, go)
        ELSE IF isGo(path, go)
        THEN <<[name |-> path, source |-> <<>>, file |-> Head(bases)]>>
        ELSE <<>>)
       \o walkItems(dir, Tail(bases), go)

\* Scan.File(name)
File(e, recursive, go) ==
  CASE e.kind = "missing" -> NoItems
    [] e.kind = "file" -> processRegularFile(e, go)
    [] e.kind = "dir" ->
         [items |-> IF recursive THEN walkItems(e.name, e.children, go)
                    ELSE dirItems(e.name, e.children, go),
          panic |-> FALSE]

RECURSIVE Itoa(_)
\* strconv.Itoa for a line number
Itoa(n) ==
  IF n < 10 THEN <<DecDigits[n + 1]>> ELSE Itoa(n \div 10) \o <<DecDigits[(n % 10) + 1]>>

\* the bytes formatMatch writes for a record
recordBytes(r, lineNumber) ==
  r.path \o <<":">> \o (IF lineNumber THEN Itoa(r.line) \o <<":">> ELSE <<>>)
  \o r.text \o <<NL>>

RECURSIVE reportsOf(_, _, _)
\* what the reporter writes for the items, in submission order
reportsOf(its, cfg, lineNumber) ==
  IF its = <<>> THEN <<>>
  ELSE LET rep0 == scan(Head(its), cfg).report IN
       [k \in 1..Len(rep0) |-> [rec |-> rep0[k], bytes |-> recordBytes(rep0[k], lineNumber)]]
       \o reportsOf(Tail(its), cfg, lineNumber)

\* variant: the command-line paths are scanned before the -list file
ResolveBeginArgsFirst ==
  /\ rPhase = "start"
  /\ flagFileName' = (flagFileName \/ flagRecursive \/ paths.list \/ Len(paths.named) > 1
                      \/ (~paths.list /\ paths.named = <<>>))
  /\ rQueue' = paths.named \o paths.listed
               \o (IF ~paths.list /\ paths.named = <<>> THEN paths.stdin ELSE <<>>)
  /\ rPhase' = "paths"
  /\ UNCHANGED <<pcore, cvars, hcore, optH, flagLineNumber, flagRecursive, paths, items, rOut,
                 hMode>>

\* doMain and doScan up to the first path: -r, -list, several named files and
\* standard input each force the header flag
ResolveBegin ==
  /\ rPhase = "start"
  /\ flagFileName' = (flagFileName \/ flagRecursive \/ paths.list \/ Len(paths.named) > 1
                      \/ (~paths.list /\ paths.named = <<>>))
  /\ rQueue' = paths.listed \o paths.named
               \o (IF ~paths.list /\ paths.named = <<>> THEN paths.stdin ELSE <<>>)
  /\ rPhase' = "paths"
  /\ UNCHANGED <<pcore, cvars, hcore, optH, flagLineNumber, flagRecursive, paths, items, rOut,
                 hMode>>

\* s.File(v) for the next path
ResolveFile ==
  /\ rPhase = "paths"
  /\ rQueue # <<>>
  /\ LET f == File(Head(rQueue), flagRecursive, flagGo) IN
     /\ items' = items \o f.items
     /\ rPhase' = IF f.panic THEN "panic" ELSE "paths"
  /\ rQueue' = Tail(rQueue)
  /\ UNCHANGED <<pcore, cvars, hcore, optH, flagFileName, flagLineNumber, flagRecursive, paths,
                 rOut, hMode>>

\* s.Complete(): every item has been scanned and its report written
ResolveEnd ==
  /\ rPhase = "paths"
  /\ rQueue = <<>>
  /\ rOut' = reportsOf(items, RunCfg, flagLineNumber)
  /\ rPhase' = "done"
  /\ UNCHANGED <<pcore, cvars, hcore, optH, flagFileName, flagLineNumber, flagRecursive, paths,
                 rQueue, items, hMode>>

NextPaths ==
  \/ ResolveBegin
  \/ ResolveFile
  \/ ResolveEnd

InitPaths ==
  /\ args = <<<<"a">>, <<"x">>>>
  /\ flagGo = TRUE
  /\ flagUnordered = FALSE
  /\ flagCPUs = 2
  /\ outputOK = TRUE
  /\ nPaths = 0
  /\ mpc = "harness"
  /\ scans = <<>>
  /\ PipeIdle
  /\ HarnessIdle
  /\ optH \in BOOLEAN
  /\ flagFileName = optH
  /\ flagLineNumber \in BOOLEAN
  /\ flagRecursive \in BOOLEAN
  /\ paths \in {[list |-> l, listed |-> IF l THEN <<pListed, pTar>> ELSE <<>>, named |-> n,
                 stdin |-> <<pStdin>>] :
                l \in BOOLEAN, n \in {<<>>} \cup SeqsUpTo(PathPool, MaxPaths)}
  /\ rPhase = "start"
  /\ rQueue = <<>>
  /\ items = <<>>
  /\ rOut = <<>>
  /\ hMode = searchModeZero
  /\ CallIdle

SpecPaths == InitPaths /\ [][NextPaths]_vars

\* ---- claims about paths and output format
\* the header option is in effect: -h, -r, -list, several named paths or
\* standard input
HeaderOption == optH \/ flagRecursive \/ paths.list \/ Len(paths.named) # 1

\* exactly one source file is named and no option asks for the header
SingleFile == ~HeaderOption /\ paths.named[1] = pGo

\* C11: a record carries the "path:" prefix only when the header option is
\* in effect; with one named file, no -r, no -list and no -h it is the
\* optional line number and the content alone, and with the option in
\* effect it starts with the path.
C11_PathPrefix ==
  rPhase = "done" =>
     \A k \in 1..Len(rOut) :
        LET body == (IF flagLineNumber THEN Itoa(rOut[k].rec.line) \o <<":">> ELSE <<>>)
                    \o rOut[k].rec.text \o <<NL>>
        IN /\ SingleFile => rOut[k].bytes = body
           /\ HeaderOption => rOut[k].bytes = rOut[k].rec.path \o <<":">> \o body

\* the paths the user supplied, in the order doScan resolves them
Supplied ==
  paths.listed \o paths.named
  \o (IF ~paths.list /\ paths.named = <<>> THEN paths.stdin ELSE <<>>)

\* the work item was read out of an archive
IsMember(it) == it.file \in {memberGo, memberText}

\* C12: every work item produced from an archive carries the display name
\* "<archive path as the user supplied it>::<member name>", also when the
\* archive is compressed (pkg.tar.gz::a.go).
C12_MemberDisplayName ==
  \A k \in 1..Len(items) :
     IsMember(items[k]) =>
        \E j \in 1..Len(Supplied) :
           items[k].name = Supplied[j].name \o <<"::">> \o items[k].file.name


\* the next path to resolve is a compressed archive
CompressedArchiveNext ==
  /\ rPhase = "paths"
  /\ rQueue # <<>>
  /\ Head(rQueue).kind = "file"
  /\ isArchive(Head(rQueue).name)
  /\ isCompressed(Head(rQueue).name)

\* C13: for each archive format (cpio, tar, zip) and each compression suffix
\* a compressed archive is decompressed into memory and its members are
\* yielded from that buffer: resolving it needs no decompressed file on disk
\* and submits the Go member of the archive.
C13_CompressedFromBuffer ==
  [][CompressedArchiveNext =>
        /\ rPhase' = "paths"
        /\ Len(items') = Len(items) + 1
        /\ items'[Len(items')].file = memberGo]_vars

\* zip.OpenReader cannot open the zip archive the path e leads to
ZipUnopened(e) ==
  LET name == IF isCompressed(e.name) THEN TrimExt(e.name) ELSE e.name IN
  /\ e.kind = "file"
  /\ Ext(name) = ".zip"
  /\ \A d \in Disk : d.name = name => d.corrupt

\* C14: a multiReader without an underlying reader never dereferences the
\* missing reader: Next returns "internal reader not found", so the archive
\* is skipped without a work item and the run continues with the next path.
C14_ReaderNotFound ==
  [][(rPhase = "paths" /\ rQueue # <<>> /\ ZipUnopened(Head(rQueue))) =>
        /\ multiReaderNext(multiReaderZero) = "internal reader not found"
        /\ rPhase' = "paths"
        /\ items' = items]_vars

RECURSIVE archivesUnder(_, _)
\* the paths of the archives in the hierarchy of a directory
archivesUnder(dir, bases) ==
  IF bases = <<>> THEN {}
  ELSE LET path == Join(dir, Head(bases).name) IN
       (IF Head(bases).kind = "dir" THEN archivesUnder(path, Head(bases).children)
        ELSE IF isArchive(path) THEN {path}
        ELSE {})
       \cup archivesUnder(dir, Tail(bases))

\* every path has been resolved, with -r, and one of them is the directory d
RecursiveDone ==
  /\ flagRecursive
  /\ rPhase \in {"paths", "done"}
  /\ rQueue = <<>>
  /\ \E j \in 1..Len(Supplied) : Supplied[j] = pDir

\* C15: with -r every archive found anywhere in the hierarchy of a named
\* directory has its Go members scanned, as every Go source file found
\* there is.
C15_RecursiveArchives ==
  RecursiveDone =>
     /\ \E k \in 1..Len(items) : items[k].name = <<"d", "/", "sub", "/", "b", ".go">>
     /\ \A a \in archivesUnder(pDir.name, pDir.children) :
           \E k \in 1..Len(items) : items[k].name = a \o <<"::">> \o memberGo.name


\* ---- claims about errors
\* the submitted items (numbered from 0) that fail in the worker
Failed == {k \in 0..(Len(submitted) - 1) : submitted[k + 1] = fCorrupt}

\* the Scan of the k-th submitted item (k from 0), read from the table of the run
ScanResult(k) == scans[PlainWork(submitted[k + 1])]

\* the matches the items that did not fail contribute
RECURSIVE MatchesOfOthers(_)
MatchesOfOthers(k) ==
  IF k = 0 THEN 0
  ELSE (IF (k - 1) \in Failed THEN 0 ELSE ScanResult(k - 1).matches)
       + MatchesOfOthers(k - 1)

\* C16: an error confined to one work item (a corrupt compressed stream)
\* never aborts the run nor disturbs the order: the item gets exactly one
\* result, with an empty report, in its position; it is counted as a file;
\* the other items are reported normally; the exit status depends on the
\* matches of the other items alone.
C16_ItemErrorIsLocal ==
  /\ \A k \in 1..Len(output) :
        /\ output[k].id \in 0..(Len(submitted) - 1)
        /\ output[k].id \in Failed => output[k].report = <<>>
        /\ output[k].id \notin Failed => output[k].report = ScanResult(output[k].id).report
        /\ ~flagUnordered => output[k].id = k - 1
  /\ \A id \in Failed : Cardinality(Written(id)) <= 1
  /\ sc.complete =>
        /\ \A id \in 0..(Len(submitted) - 1) : Cardinality(Written(id)) = 1
        /\ sc.total.files = Len(submitted)
        /\ sc.total.matches = MatchesOfOthers(Len(submitted))
  /\ (mpc = "exited" /\ submitted # <<>>) =>
        status = IF MatchesOfOthers(Len(submitted)) > 0 THEN 0 ELSE 1

\* C16 witness: an ordered run of three items, the failing one in the middle,
\* has ended with status 0 and the reports of the first and the last item
C16_Witness ==
  /\ mpc = "exited"
  /\ ~flagUnordered
  /\ submitted = <<fText, fCorrupt, fText>>
  /\ Len(output) = 3
  /\ output[2].report = <<>>
  /\ output[3].report # <<>>
  /\ sc.total.files = 3
  /\ status = 0


\* the pattern of the run is the unbalanced parenthesis, which regexp.Compile
\* rejects
BadPattern == args[2] = <<"(">>

\* C17: when the pattern is not a valid regular expression doScan returns the
\* error before any path is resolved: no worker and no reporter is started,
\* no work item is submitted, nothing is written to the output, and the exit
\* status is 2.
C17_BadPatternAborts ==
  BadPattern =>
     /\ mpc \in {"main", "exited"}
     /\ first
     /\ workers = 0
     /\ wk = <<>>
     /\ rep.pc = "none"
     /\ submitted = <<>>
     /\ pending = <<>>
     /\ output = <<>>
     /\ mpc = "exited" => status = 2

\* C17 witness: the run with the bad pattern and paths to scan has exited
C17_Witness ==
  /\ BadPattern
  /\ nPaths > 0
  /\ mpc = "exited"
  /\ status = 2
  /\ submitted = <<>>


\* command lines with an argument error and a valid pattern: an unrecognised
\* class letter, alone or after "a", and a value query that is no number
ErrArgs ==
  {<<<<"z">>, <<"x">>>>, <<<<"a", "z">>, <<"x">>>>, <<<<"v">>, <<"x">>>>,
   <<<<"a", "v">>, <<"x">>>>}

InitArgs ==
  /\ args \in ErrArgs
  /\ flagGo = TRUE
  /\ flagUnordered \in BOOLEAN
  /\ flagCPUs \in 2..MaxWorkers
  /\ outputOK \in BOOLEAN
  /\ nPaths \in 0..MaxItems
  /\ mpc = "main"
  /\ scans = [w \in PipeWorks |-> scan(w, Config(args, FALSE, flagGo))]
  /\ PipeIdle
  /\ HarnessIdle
  /\ ResolveIdle

SpecArgs == InitArgs /\ [][Next]_vars

\* the letters parseFirstArg's switch has a case for
RecognisedLetters ==
  {"a", "c", "C", "d", "D", "g", "i", "I", "k", "K", "n", "N", "o", "O", "p", "P",
   "r", "R", "s", "S", "t", "T", "v", "V"}

BadSelector == \E k \in 1..Len(args[1]) : args[1][k] \notin RecognisedLetters

\* whether the selector leaves class X on: the last letter that names X
\* decides, lowercase for on; without one, the letter a does for every class
\* except G
ClassOn(sel, X) ==
  LET named == {k \in 1..Len(sel) : sel[k] \in {X, lower(X)}} IN
  IF named = {} THEN X # "G" /\ \E k \in 1..Len(sel) : sel[k] = "a"
  ELSE sel[CHOOSE k \in named : \A j \in named : j <= k] = lower(X)

\* V is selected and the query is neither an unsigned integer nor a float
BadValueQuery ==
  /\ ClassOn(args[1], "V")
  /\ args[2] # <<>>
  /\ LET n == IF args[2][1] = "-" THEN Tail(args[2]) ELSE args[2] IN
     ParseUint(n).err /\ ParseFloat(n).err

\* C18: a bad selector and an unparseable value query are argument errors as
\* an unparseable regex is: the run ends with exit status 2 and scans no file.
C18_ArgumentErrorExit ==
  (BadSelector \/ BadValueQuery) =>
     /\ submitted = <<>>
     /\ output = <<>>
     /\ mpc = "exited" => status = 2


\* ------------------------------------------------------------------ mode
\* parseFirstArg and setupModeGG applied to a command line, and one scan
\* under the mode they give.
ModeSelectors ==
  Selectors
  \cup {<<"d">>, <<"i">>, <<"k">>, <<"n">>, <<"o">>, <<"r">>, <<"s">>, <<"t">>,
        <<"i", "v">>, <<"a", "v">>, <<"a", "z">>, <<"z">>, <<"g", "G">>, <<"C", "a">>,
        <<"k", "K", "k">>}

\* value queries: a decimal, a float, and texts that are no number
ModeQueries == {<<"2", "5", "5">>, <<"1", ".", "5">>, <<"x">>, <<"-", "x">>, <<"0", "x">>}

fMode == PlainFile(GoName, <<idX, spBlank, opPlus, spBlank, numHex>>)

\* setupModeGG: res = parseFirstArg(args[0])
ModeParse ==
  /\ hPhase = "start"
  /\ hMode' = parseFirstArg(args[1])
  /\ hPhase' = "parsed"
  /\ UNCHANGED <<pcore, cvars, rvars, hFile, hSel, hBase, hOut, hPos, hPrev>>

\* setupModeGG: the value matcher is initialised and the mode returned
ModeSetup ==
  /\ hPhase = "parsed"
  /\ hMode' = setupModeGG(args, FALSE)
  /\ hPhase' = "mode"
  /\ UNCHANGED <<pcore, cvars, rvars, hFile, hSel, hBase, hOut, hPos, hPrev>>

\* Scan.scan of one file under the mode
ModeScan ==
  /\ hPhase = "mode"
  /\ hOut' = scan(PlainWork(hFile),
                  [mode |-> hMode, regex |-> args[2], flagActLikeGrep |-> FALSE,
                   flagGo |-> flagGo])
  /\ hPhase' = "scanned"
  /\ UNCHANGED <<pcore, cvars, rvars, hMode, hFile, hSel, hBase, hPos, hPrev>>

NextMode ==
  \/ ModeParse
  \/ ModeSetup
  \/ ModeScan

InitMode ==
  /\ args \in {<<sel, q>> : sel \in ModeSelectors, q \in ModeQueries}
  /\ flagGo = TRUE
  /\ flagUnordered = FALSE
  /\ flagCPUs = 2
  /\ outputOK = TRUE
  /\ nPaths = 1
  /\ mpc = "harness"
  /\ scans = <<>>
  /\ PipeIdle
  /\ hPhase = "start"
  /\ hFile = fMode
  /\ hSel = <<>>
  /\ hBase = NewScan
  /\ hOut = NewScan
  /\ hPos = 0
  /\ hPrev = NewScan
  /\ ResolveIdle

SpecMode == InitMode /\ [][NextMode]_vars

\* ---- claims about the selector
Twelve == ClassLetters \cup {"G"}

\* the classes a mode has on
On(mode) == {X \in Twelve : mode[X]}

\* C19: when V is selected and the second argument parses neither as an
\* unsigned integer nor as a float, setupModeGG only clears V: every other
\* class keeps what the selector gave it, and the scan goes on with regex
\* matching in the classes that remain.
C19_OnlyVCleared ==
  (hPhase \in {"mode", "scanned"} /\ BadValueQuery) =>
     /\ ~hMode.V
     /\ ~hMode.vIsInt
     /\ \A X \in Twelve \ {"V"} : hMode[X] = ClassOn(args[1], X)
     /\ hPhase = "scanned" =>
           /\ hOut.files = 1
           /\ (ClassOn(args[1], "I") /\ regexMatch(args[2], idX.text)) => hOut.matches > 0
           /\ On(hMode) = {} => hOut.report = <<>>

\* C19 witness: iv with the query x has been set up and scanned; the
\* identifier x was matched by the regex
C19_Witness ==
  /\ hPhase = "scanned"
  /\ args = <<<<"i", "v">>, <<"x">>>>
  /\ On(hMode) = {"I"}
  /\ hOut.matches = 1

\* C20: parseFirstArg of the selector a enables the eleven classes
\* C,D,I,K,N,O,P,R,S,T,V and leaves G off; of one lowercase class letter,
\* exactly that class; of aX, X one of the eleven, all eleven except X.
C20_SelectorClasses ==
  hPhase = "parsed" =>
     LET sel == args[1] IN
     /\ sel = <<"a">> => On(hMode) = ClassLetters
     /\ \A X \in Twelve : sel = <<lower(X)>> => On(hMode) = {X}
     /\ \A X \in ClassLetters : sel = <<"a", X>> => On(hMode) = ClassLetters \ {X}

\* C20 witness: aK has been parsed, and K alone of the eleven is off
C20_Witness ==
  /\ hPhase = "parsed"
  /\ args[1] = <<"a", "K">>
  /\ ~hMode.K
  /\ hMode.C /\ hMode.V
  /\ ~hMode.G

\* C21: the selector is applied letter by letter from left to right: a
\* lowercase class letter sets its bit and an uppercase one clears it, for all
\* twelve classes, G included, so the last occurrence of a class's letter
\* decides; the preset of a comes first wherever a stands (Ca equals aC).
C21_LastLetterDecides ==
  hPhase = "parsed" => \A X \in Twelve : hMode[X] = ClassOn(args[1], X)

\* C22: for the one line  x := 255; y := 0xff; z := 0b1111_1111; s := "255"
\* the selector v with the query 255 reports three matches, one for each
\* number literal equal to 255, and none for the string literal.
C22_ThreeValueMatches ==
  (hPhase = "done" /\ hFile = fValues /\ args = <<<<"v">>, <<"2", "5", "5">>>>) =>
     Len(hOut.report) = 3

RECURSIVE ItemsOf(_)
\* the work items the paths ps give, path after path
ItemsOf(ps) ==
  IF ps = <<>> THEN <<>>
  ELSE File(Head(ps), flagRecursive, flagGo).items \o ItemsOf(Tail(ps))

\* C23: the path sources are consumed in a fixed order: every line of the
\* -list file, then every command-line path, each path resolved and its items
\* submitted before the next path is looked at; standard input is read if and
\* only if -list is empty and no path is on the command line.
C23_SourceOrder ==
  rPhase # "start" =>
     LET n == Len(Supplied) - Len(rQueue) IN
     /\ rQueue = SubSeq(Supplied, n + 1, Len(Supplied))
     /\ items = ItemsOf(SubSeq(Supplied, 1, n))
     /\ (\E j \in 1..Len(Supplied) : Supplied[j] = pStdin)
           <=> (~paths.list /\ paths.named = <<>>)
     /\ paths.list => SubSeq(Supplied, 1, 2) = paths.listed
     /\ (paths.list \/ paths.named # <<>>) =>
           SubSeq(Supplied, Len(paths.listed) + 1, Len(Supplied)) = paths.named

\* C23 witness: a run with a -list file and two command-line paths is done;
\* the first item is the listed file, the last one comes from the command line
C23_Witness ==
  /\ rPhase = "done"
  /\ paths.list
  /\ paths.named = <<pTarGz, pGo>>
  /\ items[1].file = pListed
  /\ items[Len(items)].file = pGo
  /\ Len(items) = 4

\* ------------------------------------------------------------------ calls
\* isVisible, isGo, isArchive, isCompressed, getMaxCPU and multiReader.Next
\* applied on their own.  callIn is the argument: a path (a sequence of bytes)
\* for isVisible, a file name (stem and extensions) for the next three, the
\* -cpu flag and runtime.NumCPU() for getMaxCPU, the reader for Next; callOut
\* is the list of the values returned so far.
RECURSIVE Split(_, _)
\* strings.Split(s, sep) for a separator of one byte
Split(s, sep) ==
  LET i == IndexByte(s, sep) IN
  IF i = 0 THEN <<s>>
  ELSE <<SubSeq(s, 1, i - 1)>> \o Split(SubSeq(s, i + 1, Len(s)), sep)

\* variant: only the last segment of the path is looked at
isVisibleBase(name, visible) ==
  LET segs == Split(name, "/")
      s == segs[Len(segs)]
  IN ~visible \/ ~(s # <<>> /\ s # <<".">> /\ s # <<".", ".">> /\ s[1] = ".")

isVisible(name, visible) ==
  IF visible
  THEN LET segs == Split(name, "/") IN
       \A k \in 1..Len(segs) :
          LET s == segs[k] IN
          ~(s # <<>> /\ s # <<".">> /\ s # <<".", ".">> /\ s[1] = ".")
  ELSE TRUE

\* variant: the result is not raised to 2
getMaxCPUNoFloor(flag, numCPU) ==
  IF flag > 0 THEN flag ELSE IF flag < 0 THEN flag + numCPU ELSE numCPU

getMaxCPU(flag, numCPU) ==
  LET cpus == IF flag > 0 THEN flag ELSE IF flag < 0 THEN flag + numCPU ELSE numCPU
  IN IF cpus < 2 THEN 2 ELSE cpus

PathBytes == {".", "/", "a"}
PathNames == {<<>>} \cup SeqsUpTo(PathBytes, MaxPathLen)

ExtPool == {".go", ".gz", ".bz2", ".zst", ".zip", ".tar", ".cpio", ".exe"}
FileNames == {<<"x">>} \cup {<<"x">> \o e : e \in SeqsUpTo(ExtPool, MaxExts)}

\* the zip readers newMultiReader returns, by the members of the archive
ZipReaders ==
  {[ext |-> eZIP, hasReader |-> TRUE, members |-> ms, zipIndex |-> -1] :
     ms \in {<<>>} \cup SeqsUpTo({memberGo, memberText}, MaxMembers)}

CallInputs ==
  {[kind |-> "path", name |-> n] : n \in PathNames}
  \cup {[kind |-> "file", name |-> n] : n \in FileNames}
  \cup {[kind |-> "cpu", flag |-> f, numCPU |-> n] : f \in (-MaxCPU)..MaxCPU, n \in 1..MaxCPU}
  \cup {[kind |-> "zip", reader |-> r, members |-> r.members] : r \in ZipReaders}

VisibleCall ==
  /\ callOut = <<>>
  /\ callIn.kind = "path"
  /\ callOut' = <<[fn |-> "isVisible", result |-> isVisible(callIn.name, flagVisible)]>>
  /\ UNCHANGED <<pcore, hcore, rvars, hMode, flagVisible, callIn>>

GoCall ==
  /\ callOut = <<>>
  /\ callIn.kind = "file"
  /\ callOut' = <<[fn |-> "isGo", result |-> isGo(callIn.name, flagGo)]>>
  /\ UNCHANGED <<pcore, hcore, rvars, hMode, flagVisible, callIn>>

ArchiveCall ==
  /\ callOut = <<>>
  /\ callIn.kind = "file"
  /\ callOut' = <<[fn |-> "isArchive", result |-> isArchive(callIn.name)]>>
  /\ UNCHANGED <<pcore, hcore, rvars, hMode, flagVisible, callIn>>

CompressedCall ==
  /\ callOut = <<>>
  /\ callIn.kind = "file"
  /\ callOut' = <<[fn |-> "isCompressed", result |-> isCompressed(callIn.name)]>>
  /\ UNCHANGED <<pcore, hcore, rvars, hMode, flagVisible, callIn>>

CPUCall ==
  /\ callOut = <<>>
  /\ callIn.kind = "cpu"
  /\ callOut' = <<[fn |-> "getMaxCPU", result |-> getMaxCPU(callIn.flag, callIn.numCPU)]>>
  /\ UNCHANGED <<pcore, hcore, rvars, hMode, flagVisible, callIn>>

\* r.Next() once more on the same reader
NextCall ==
  /\ callIn.kind = "zip"
  /\ Len(callOut) < Len(callIn.members) + 1 + MaxEOF
  /\ LET n == zipNext(callIn.reader) IN
     /\ callIn' = [callIn EXCEPT !.reader = n.reader]
     /\ callOut' = Append(callOut, [fn |-> "Next", result |-> [name |-> n.name, err |-> n.err]])
  /\ UNCHANGED <<pcore, hcore, rvars, hMode, flagVisible>>

NextCalls ==
  \/ VisibleCall
  \/ GoCall
  \/ ArchiveCall
  \/ CompressedCall
  \/ CPUCall
  \/ NextCall

\* the state before doScan with every flag at its default
MainIdle ==
  /\ args = <<<<"a">>, <<"x">>>>
  /\ flagUnordered = FALSE
  /\ flagCPUs = 2
  /\ outputOK = TRUE
  /\ nPaths = 0
  /\ mpc = "harness"
  /\ scans = <<>>
  /\ PipeIdle
  /\ HarnessIdle
  /\ optH = FALSE
  /\ flagFileName = FALSE
  /\ flagLineNumber = FALSE
  /\ flagRecursive = FALSE
  /\ paths = [list |-> FALSE, listed |-> <<>>, named |-> <<>>, stdin |-> <<>>]
  /\ rPhase = "idle"
  /\ rQueue = <<>>
  /\ items = <<>>
  /\ rOut = <<>>
  /\ hMode = searchModeZero

InitCalls ==
  /\ MainIdle
  /\ flagGo \in BOOLEAN
  /\ flagVisible \in BOOLEAN
  /\ callIn \in CallInputs
  /\ callOut = <<>>

SpecCalls == InitCalls /\ [][NextCalls]_vars

\* ---- claims about the functions applied on their own
Returned(fn) == callOut # <<>> /\ callOut[1].fn = fn

\* some segment of the path p, other than "", "." and "..", begins with a dot:
\* a dot at the start of a segment that is followed by more of the segment
\* than one further dot
HiddenSegment(p) ==
  \E i \in 1..Len(p) :
     /\ p[i] = "."
     /\ i = 1 \/ p[i - 1] = "/"
     /\ LET rest == SubSeq(p, i + 1, Len(p))
            n == IF IndexByte(rest, "/") = 0 THEN Len(rest) ELSE IndexByte(rest, "/") - 1
        IN n > 0 /\ ~(n = 1 /\ rest[1] = ".")

\* C24: visible(p) is false if and only if the visible option is on and some
\* segment of p other than "", "." and ".." begins with a dot; with the option
\* off it is true for every p.
C24_Visible ==
  Returned("isVisible") =>
     (callOut[1].result = FALSE <=> (flagVisible /\ HiddenSegment(callIn.name)))

\* C24 witness: .a/a (a file in a hidden directory) is not visible
C24_Witness ==
  /\ Returned("isVisible")
  /\ flagVisible
  /\ callIn.name = <<".", "a", "/", "a">>
  /\ callOut[1].result = FALSE

CompressionSuffixes == {".bz2", ".gz", ".zst"}

\* the extension that remains after at most one trailing compression suffix
\* is removed from the name (stem and extensions)
RemainingExt(p) ==
  LET rest == IF Len(p) > 1 /\ p[Len(p)] \in CompressionSuffixes
              THEN SubSeq(p, 1, Len(p) - 1) ELSE p
  IN IF Len(rest) > 1 THEN rest[Len(rest)] ELSE ""

\* C25: with the go option on isGo(p) is true exactly when the extension left
\* after removing at most one compression suffix is .go (x.go.gz passes,
\* x.go.zip and x.go.gz.gz do not); with the option off it is true for every
\* name.
C25_IsGo ==
  Returned("isGo") =>
     /\ callOut[1].result = (~flagGo \/ RemainingExt(callIn.name) = ".go")
     /\ (flagGo /\ callIn.name = <<"x", ".go", ".gz">>) => callOut[1].result
     /\ (flagGo /\ callIn.name \in {<<"x", ".go", ".zip">>, <<"x", ".go", ".gz", ".gz">>})
           => ~callOut[1].result

\* C25 witness: x.go.gz is a Go file under the go option
C25_Witness ==
  /\ Returned("isGo")
  /\ flagGo
  /\ callIn.name = <<"x", ".go", ".gz">>
  /\ callOut[1].result

\* C26: isArchive(p) is true exactly when the extension left after removing
\* at most one compression suffix (.bz2, .gz or .zst, the suffixes for which
\* isCompressed holds, and nothing else) is .cpio, .tar or .zip; x.cpio.exe
\* is no archive.
C26_IsArchive ==
  /\ Returned("isCompressed") =>
        callOut[1].result
           = (Len(callIn.name) > 1 /\ callIn.name[Len(callIn.name)] \in CompressionSuffixes)
  /\ Returned("isArchive") =>
        /\ callOut[1].result = (RemainingExt(callIn.name) \in {".cpio", ".tar", ".zip"})
        /\ callIn.name = <<"x", ".cpio", ".exe">> => ~callOut[1].result

\* C26 witness: x.tar.zst is an archive
C26_Witness ==
  /\ Returned("isArchive")
  /\ callIn.name = <<"x", ".tar", ".zst">>
  /\ callOut[1].result

\* C27: getMaxCPU returns at least 2 for every value of the -cpu flag: 0
\* gives the number of CPUs, a positive n gives n, a negative n the number of
\* CPUs plus n, and a result below 2 is raised to 2.
C27_AtLeastTwoWorkers ==
  Returned("getMaxCPU") =>
     LET f == callIn.flag
         asked == CASE f = 0 -> callIn.numCPU
                    [] f > 0 -> f
                    [] f < 0 -> callIn.numCPU + f
     IN /\ callOut[1].result >= 2
        /\ asked >= 2 => callOut[1].result = asked
        /\ asked < 2 => callOut[1].result = 2

\* C27 witness: -cpu=-4 on two CPUs spares more than there are, and 2 is
\* returned
C27_Witness ==
  /\ Returned("getMaxCPU")
  /\ callIn.flag = -4
  /\ callIn.numCPU = 2
  /\ callOut[1].result = 2

PlacedOn(q) ==
  /\ scattered' = scattered + 1
  /\ work' = [work EXCEPT ![q] = Append(@, pending)]

\* the reporter's receive number k is made by this step
ReceiveNo(k) == rep.gathered = k /\ rep'.gathered = k + 1

\* nothing of a real result is left anywhere in the pipeline
NoRealResultLeft ==
  /\ \A q \in DOMAIN work : work[q] = <<>>
  /\ \A i \in DOMAIN wk : wk[i].pc # "send"
  /\ \A q \in DOMAIN result : \A j \in 1..Len(result[q]) : result[q][j].s.complete

RoundRobinStep ==
  ~flagUnordered =>
     /\ (scattered' # scattered) =>
           /\ pending.id = scattered
           /\ PlacedOn(pending.id % workers)
     /\ (rep'.gathered # rep.gathered) =>
           LET k == rep.gathered
               q == k % workers
               r == Head(result[q])
           IN /\ ReceiveNo(k)
              /\ result[q] # <<>>
              /\ result' = [result EXCEPT ![q] = Tail(@)]
              /\ k < Len(submitted) =>
                    /\ ~r.s.complete
                    /\ r.id = k
                    /\ r.s = ScanOf(k)
              /\ k >= Len(submitted) =>
                    /\ r.s.complete
                    /\ workClosed
                    /\ k < Len(submitted) + workers
                    /\ wk[q].pc = "exit"
                    /\ result'[q] = <<>>
                    /\ rep'.completed = k - Len(submitted) + 1
                    /\ NoRealResultLeft

\* the queue the reporter waits on is not one whose worker has exited with
\* its sentinel already received
WaitsOnLiveQueue ==
  (~flagUnordered /\ rep.pc = "loop") =>
     LET q == rep.gathered % workers IN ~(wk[q].pc = "exit" /\ result[q] = <<>>)

\* C29: in ordered mode with N workers and M submitted items the k-th
\* submission goes to work queue k mod N, the reporter's k-th receive is from
\* result queue k mod N and yields the result of the k-th submission for k<M
\* and a sentinel for M<=k<M+N, one from each worker; the reporter never
\* waits on a queue whose worker has delivered its sentinel and never counts
\* a sentinel while a real result is unconsumed.
C29_RoundRobin == [][RoundRobinStep]_vars /\ []WaitsOnLiveQueue

\* C29 witness: two workers, three items (not a multiple of two): the three
\* results and then both sentinels were received
C29_Witness ==
  /\ ~flagUnordered
  /\ workers = 2
  /\ Len(submitted) = 3
  /\ rep.gathered = 5
  /\ rep.completed = 2
  /\ Len(output) = 3

\* C30: if the reporter cannot create the file named by -output the run
\* still terminates: once the work queues are closed Complete returns, and
\* every worker gets its results and its sentinel out and exits.
C30_TerminatesWithoutOutput ==
  (~outputOK /\ workClosed) ~> (sc.complete /\ \A i \in DOMAIN wk : wk[i].pc = "exit")

\* ------------------------------------------------------------------ tokens
\* Scan.scan on one file of Go tokens, one token of the loop at a time, under
\* selectors that pick comments, strings, identifiers and package names.
cmBlock3 == Lexeme("Comment", "Block", <<"/", "*", NL, "x", NL, "x", "*", "/">>)
idY == Lexeme("Identifier", "ASCII", <<"y">>)

TokenPool == {kwPackage, idX, idY, spBlank, spNewline, cmBlock, cmBlock3, strRaw, opPlus}

TokenFiles ==
  {PlainFile(GoName, ls) : ls \in {l \in SeqsUpTo(TokenPool, MaxTokens) : WellLexed(l)}}

TokenArgs ==
  {<<sel, <<"x">>>> : sel \in {<<"a">>, <<"c">>, <<"s">>, <<"p">>, <<"i">>, <<"p", "i">>,
                                <<"g">>}}
  \cup {<<<<"x">>>>}

InitTokens ==
  /\ args \in TokenArgs
  /\ flagGo = TRUE
  /\ flagUnordered = FALSE
  /\ flagCPUs = 2
  /\ outputOK = TRUE
  /\ nPaths = 1
  /\ mpc = "harness"
  /\ scans = <<>>
  /\ PipeIdle
  /\ hPhase = "open"
  /\ hFile \in TokenFiles
  /\ hSel = <<>>
  /\ hBase = NewScan
  /\ hOut = NewScan
  /\ hPos = 0
  /\ hPrev = NewScan
  /\ ResolveIdle

SpecTokens == InitTokens /\ [][NextValue]_vars

\* ---- claims about the token loop
\* the records the token taken last has added to the report
NewRecords == SubSeq(hOut.report, Len(hPrev.report) + 1, Len(hOut.report))

\* the loop has just taken a multi-line raw string or block comment whose
\* class is selected
MultiLineTaken ==
  /\ hPhase = "tokens"
  /\ hPos >= 1
  /\ IsMultiLine(LastToken)
  /\ \/ LastToken.tok = "Comment" /\ RunCfg.mode.C
     \/ LastToken.tok = "String" /\ RunCfg.mode.S

\* the sub-lines of the token taken last, without their newlines
SubLineTexts == Split(LastToken.text, NL)

\* the sub-lines (counted from 0) of the token taken last that match
MatchingSubLines ==
  {k \in 0..(Len(SubLineTexts) - 1) : regexMatch(args[2], SubLineTexts[k + 1])}

RECURSIVE SubLineRecords(_, _)
\* one record with line L+k and the text of sub-line k for every k of ks from
\* sub-line number k0 on, in ascending order
SubLineRecords(ks, k0) ==
  IF k0 >= Len(SubLineTexts) THEN <<>>
  ELSE (IF k0 \in ks
        THEN <<[path |-> hOut.path, line |-> LastToken.line + k0, text |-> SubLineTexts[k0 + 1]]>>
        ELSE <<>>)
       \o SubLineRecords(ks, k0 + 1)

\* C31 as stated: every matching sub-line k of a multi-line raw string or
\* block comment that starts on line L is counted as a match and recorded
\* with line number L+k and the sub-line text without its newline.
C31_SubLineRecords ==
  MultiLineTaken =>
     /\ hOut.matches = hPrev.matches + Cardinality(MatchingSubLines)
     /\ NewRecords = SubLineRecords(MatchingSubLines, 0)

\* C31 amended: the same, except that a matching sub-line whose line already
\* has a record (sub-line 0, when an earlier token of line L was recorded) is
\* counted but not recorded a second time.
C31_SubLineRecordsOncePerLine ==
  MultiLineTaken =>
     /\ hOut.matches = hPrev.matches + Cardinality(MatchingSubLines)
     /\ NewRecords
          = SubLineRecords({k \in MatchingSubLines : hPrev.printLine < LastToken.line + k}, 0)

\* C31 witness: a block comment that starts on line 2 and whose sub-line 0
\* does not match has been recorded with lines 3 and 4
C31_Witness ==
  /\ MultiLineTaken
  /\ LastToken.text = cmBlock3.text
  /\ LastToken.line = 2
  /\ Len(NewRecords) = 2
  /\ NewRecords[1] = [path |-> hOut.path, line |-> 3, text |-> <<"x">>]
  /\ NewRecords[2] = [path |-> hOut.path, line |-> 4, text |-> <<"x", "*", "/">>]

\* the tokens of the file scanned
FileTokens == Lex(hFile.lexemes, 1)

IsPackageKeyword(t) == t.tok = "Keyword" /\ t.text = <<"p", "a", "c", "k", "a", "g", "e">>

\* among the first n tokens there is a package keyword with no Identifier
\* after it
PackageNameAwaited(n) ==
  \E i \in 1..n :
     /\ IsPackageKeyword(FileTokens[i])
     /\ \A m \in (i + 1)..n : FileTokens[m].tok # "Identifier"

One(b) == IF b THEN 1 ELSE 0

\* C32: the package-name latch is set exactly when a Keyword with text
\* package is seen, stays set across every following token that is not an
\* Identifier and is cleared by the next Identifier; the class-P test is
\* applied to that Identifier and to no other token, so each package keyword
\* gives at most one package-name match, and that Identifier then still goes
\* through the class-I test like any other identifier (a match is counted
\* when class I is selected and its line has no record yet).
C32_PackageLatch ==
  (hPhase = "tokens") =>
     /\ hOut.expectPackageName = PackageNameAwaited(hPos)
     /\ (hPos >= 1 /\ LastToken.tok \in {"Identifier", "Keyword", "Space", "Operator"}) =>
           LET t == LastToken
               hit == regexMatch(args[2], t.text)
               pHit == /\ RunCfg.mode.P
                       /\ t.tok = "Identifier"
                       /\ PackageNameAwaited(hPos - 1)
                       /\ hit
               pRec == pHit /\ hPrev.printLine < t.line
               classOn == CASE t.tok = "Identifier" -> RunCfg.mode.I
                            [] t.tok = "Keyword" -> RunCfg.mode.K
                            [] t.tok = "Operator" -> RunCfg.mode.O
                            [] OTHER -> FALSE
               cHit == classOn /\ hit /\ ~pRec /\ hPrev.printLine < t.line
           IN /\ hOut.matches = hPrev.matches + One(pHit) + One(cHit)
              /\ Len(hOut.report) = Len(hPrev.report) + One(pRec) + One(cHit)
     /\ args[1] = <<"p">> =>
           hOut.matches
              <= Cardinality({i \in 1..hPos : IsPackageKeyword(FileTokens[i])})

\* C32 witness: under selector pi the latch has stayed set across the blank
\* after the package keyword, and the identifier x has cleared it and given
\* one package-name match
C32_Witness ==
  /\ hPhase = "tokens"
  /\ args[1] = <<"p", "i">>
  /\ hFile.lexemes = <<kwPackage, spBlank, idX>>
  /\ hPos = 3
  /\ hPrev.expectPackageName
  /\ ~hOut.expectPackageName
  /\ hOut.matches = 1

\* ---- claims about the closing of the queues
\* some result queue has grown by this step: a worker has sent
ResultSent == \E q \in DOMAIN result : q \in DOMAIN result' /\ Len(result'[q]) > Len(result[q])

\* some work queue has grown by this step: the submitter has sent
WorkSent == \E q \in DOMAIN work : q \in DOMAIN work' /\ Len(work'[q]) > Len(work[q])

ClosedInOrder ==
  /\ resultClosed =>
        /\ \A i \in DOMAIN wk : wk[i].pc = "exit"
        /\ rep.pc = "exit"
        /\ rep.completed = workers
        /\ workClosed
  /\ workClosed =>
        /\ mpc \in {"waitdone", "closing", "returned", "exited"}
        /\ Len(submitted) = nPaths
        /\ scattered = Len(submitted)

NoSendOnClosed ==
  /\ ResultSent => ~resultClosed /\ ~resultClosed'
  /\ WorkSent => ~workClosed /\ ~workClosed'
  /\ (~workClosed /\ workClosed') => mpc = "submit" /\ mpc' = "waitdone"
  /\ (~resultClosed /\ resultClosed') => mpc = "closing" /\ rep.pc = "exit"

\* C33: the result queues are closed only after every worker has sent its
\* sentinel and the reporter has signalled done, the work queues only by
\* Complete after the last submission; no worker sends on a closed result
\* queue and the submitter never sends on a closed work queue.
C33_NoSendOnClosedQueue == []ClosedInOrder /\ [][NoSendOnClosed]_vars

\* C33 witness: the result queues are closed after three items went through
\* two workers
C33_Witness ==
  /\ resultClosed
  /\ workers = 2
  /\ Len(submitted) = 3
  /\ Len(output) = 3

\* ------------------------------------------------------------------ Complete again
\* The pipeline with a caller that calls s.Complete() again after it has
\* returned; callOut lists what the later calls returned.
\* Scan.Complete on a Scan whose Complete has returned before: with s.complete
\* set the total is returned; without it s.Scan("", nil) closes the work
\* channels a second time, which panics.
CompleteAgain ==
  /\ mpc = "returned"
  /\ Len(callOut) < MaxAgain
  /\ IF sc.complete
     THEN /\ callOut' = Append(callOut, [fn |-> "Complete", result |-> sc.total])
          /\ mpc' = mpc
     ELSE /\ callOut' = callOut
          /\ mpc' = "panic"
  /\ UNCHANGED <<args, flagGo, flagUnordered, flagCPUs, outputOK, nPaths, pending, first,
                 workers, scattered, work, workClosed, result, resultClosed, wk, rep,
                 output, sc, status, submitted, scans, hcore, rvars, hMode, flagVisible,
                 callIn>>

NextAgain ==
  \/ Main
  \/ \E i \in 0..(MaxWorkers - 1) : Worker(i)
  \/ Reporter
  \/ CompleteAgain

SpecAgain == InitFair /\ [][NextAgain]_vars

\* everything of the pipeline but the position of the caller
PipeState ==
  <<work, workClosed, result, resultClosed, wk, rep, output, sc, first, workers,
    scattered, submitted>>

LaterCallStep ==
  (callOut' # callOut) =>
     /\ callOut' = Append(callOut, [fn |-> "Complete", result |-> rep.total])
     /\ mpc' = mpc
     /\ PipeState' = PipeState

\* C34: Complete is idempotent: only its first call closes the work queues,
\* waits for the summary and closes the result queues; every later call
\* returns the same summary at once, closes no channel again and does not
\* block.
C34_CompleteIdempotent ==
  /\ [](mpc # "panic")
  /\ []((mpc = "returned" /\ Len(callOut) < MaxAgain) => ENABLED CompleteAgain)
  /\ [](\A k \in 1..Len(callOut) : callOut[k].result = sc.total)
  /\ [][LaterCallStep]_vars

\* C34 witness: Complete was called twice more after a run with records
C34_Witness ==
  /\ Len(callOut) = 2
  /\ Len(submitted) = 2
  /\ callOut[1].result.matches > 0
  /\ callOut[2] = callOut[1]

\* ---- claims about the binary heuristic
\* the number of control bytes among the first 2 KiB of the source
ControlsInFirst2K(source) ==
  Cardinality({i \in 1..(IF Len(source) < 2048 THEN Len(source) ELSE 2048) :
                 source[i] \in ControlBytes})

\* C35: with the go filter off a file is skipped as binary if and only if
\* more than 8 bytes among its first 2 KiB are control bytes; with the go
\* filter on the heuristic is never applied; a skipped file yields an empty
\* report and no tokens.
C35_BinarySkip ==
  (~hFile.unreadable /\ ~hFile.corrupt) =>
     \A run \in HarnessRuns :
        LET skipped == run.s.files = 0 IN
        /\ skipped <=> (~flagGo /\ ControlsInFirst2K(Source(hFile)) > 8)
        /\ skipped => (run.s.report = <<>> /\ run.s.tokens = 0)

\* ---- claims about grep mode
\* the run is in grep mode: -g was given (the pattern is the only fixed
\* argument) or the selector holds the letter g
GrepMode == Len(args) = 1 \/ Selects(args[1], "g")

\* the lines of the file without their newlines; a last line without
\* newline counts, the empty rest after a final newline does not
FileLines ==
  LET src == Source(hFile)
      segs == Split(src, NL)
  IN IF src = <<>> \/ src[Len(src)] = NL THEN SubSeq(segs, 1, Len(segs) - 1) ELSE segs

RECURSIVE GrepRecords(_, _)
\* one record for every line from number k on that the pattern occurs in
GrepRecords(regex, k) ==
  IF k > Len(FileLines) THEN <<>>
  ELSE (IF regexMatch(regex, FileLines[k])
        THEN <<[path |-> hFile.name, line |-> k, text |-> FileLines[k]]>>
        ELSE <<>>)
       \o GrepRecords(regex, k + 1)

\* C36: in grep mode (flag -g or selector letter g) nothing is lexed: the
\* buffer is split on newlines, every line, a last line without newline
\* included, is tested once, one record is written per matching line in
\* ascending order, and its line number is the 1-based index of the line.
C36_GrepLines ==
  (hPhase = "done" /\ GrepMode) =>
     /\ hOut.tokens = 0
     /\ hOut.report = GrepRecords(args[Len(args)], 1)
     /\ hOut.matches = Len(hOut.report)
     /\ \A i \in 1..(Len(hOut.report) - 1) : hOut.report[i].line < hOut.report[i + 1].line

\* C36 witness: under -g the two lines x and x, the second without newline,
\* have given the records of lines 1 and 2
C36_Witness ==
  /\ hPhase = "done"
  /\ Len(args) = 1
  /\ hFile.lexemes = <<idX, spNewline, idX>>
  /\ Len(hOut.report) = 2
  /\ hOut.report[1].line = 1
  /\ hOut.report[2] = [path |-> hFile.name, line |-> 2, text |-> <<"x">>]

\* ---- claims about a signed value query
SignedQuery == args[2] = <<"-", "2", "5", "5">>

\* the loop has just taken a Number token
NumberTaken ==
  /\ hPhase \in {"tokens", "done"}
  /\ hPos >= 1
  /\ LastToken.tok = "Number"

\* C37: a value query written with a leading - (here -255) produces no value
\* match for any number token, since the sign of a token comes from a leading
\* - of its text only, which no token has; a query without a sign matches
\* the tokens of equal magnitude.
C37_SignedQueryNeverMatches ==
  /\ (NumberTaken /\ SignedQuery) =>
        /\ RunCfg.mode.sign = -1
        /\ LastToken.text[1] # "-"
        /\ NewRecords = <<>>
        /\ hOut.report = <<>>
  /\ (NumberOnFreshLine /\ args = <<<<"v">>, <<"2", "5", "5">>>>) =>
        (RecordAdded <=> LiteralValue(LastToken.text) = 255)

\* C37 witness: under selector v and query -255 the token 255 was taken and
\* nothing was recorded, although the magnitudes are equal
C37_Witness ==
  /\ NumberTaken
  /\ SignedQuery
  /\ args[1] = <<"v">>
  /\ LastToken.text = <<"2", "5", "5">>
  /\ RunCfg.mode.V
  /\ RunCfg.mode.vIsInt
  /\ RunCfg.mode.vInt = 255
  /\ hOut.report = <<>>

====
